---- MODULE Spec2Model ----
(***************************************************************************)
(* AtomAgent web client: the reconnecting WebSocket transport, the typed   *)
(* message dispatcher, the streaming-token accumulator, the tool ledger    *)
(* and the preview window manager.                                         *)
(*                                                                         *)
(* JavaScript values are tagged records: Str(s) is a string, Null and      *)
(* Undefined are the two empty values.  A string is a sequence of symbols; *)
(* a symbol stands for a run of one or more characters, and the symbol     *)
(* " " stands for white space.                                             *)
(***************************************************************************)
EXTENDS Integers, Sequences, FiniteSets, TLC

\* ---------------------------------------------------------------- bounds
MaxEpoch == 3
MaxTime == 9000
MaxConnFrames == 2
MaxFrames == 4
MaxLedgerFrames == 4
MaxLedgerTime == 2000
MaxSends == 2
MaxPreviewOps == 5
MaxBrowseFrames == 4
MaxPageFrames == 4
MaxMirrorFrames == 2
MaxCapFrames == 52
MaxMirrorOps == 3
MaxStopFrames == 5
MaxCanvasTime == 12000
MaxCanvasOps == 2
CanvasStepMs == 2000
MaxSwitchFrames == 2
MaxSwitchTime == 5000
MaxSessionOps == 4

\* ------------------------------------------------------ program constants
ReconnectDelay == 3000
TickMs == 1000
MAX_HISTORY == 50
BROWSER_MAX_HISTORY == 30
DefaultVncPort == 16080
LoadTimeout == 10000

\* ------------------------------------------------------------- JS values
Str(s) == [t |-> "string", v |-> s]
Null == [t |-> "null", v |-> <<>>]
Undefined == [t |-> "undefined", v |-> <<>>]
NoTime == -1

IsString(x) == x.t = "string"

\* x.trim(), x.substring(..), x.length: a TypeError unless x is a string
ThrowsOnMethod(x) == ~IsString(x)

RECURSIVE TrimLeft(_)
TrimLeft(s) ==
    IF s = <<>> THEN <<>>
    ELSE IF Head(s) = " " THEN TrimLeft(Tail(s)) ELSE s

RECURSIVE TrimRight(_)
TrimRight(s) ==
    IF s = <<>> THEN <<>>
    ELSE IF s[Len(s)] = " " THEN TrimRight(SubSeq(s, 1, Len(s) - 1)) ELSE s

\* String.prototype.trim
Trim(s) == TrimRight(TrimLeft(s))

\* truthiness of a JS value
Truthy(x) == IsString(x) /\ x.v # <<>>

\* string conversion done by the + operator
ToStr(x) ==
    IF x.t = "string" THEN x.v
    ELSE IF x.t = "null" THEN <<"null">> ELSE <<"undefined">>

\* ------------------------------------------------------------ variables
VARIABLES
    sockets,            \* every WebSocket created so far; state.ws is the last
    timers,             \* pending setTimeout(connectWebSocket, 3000) callbacks
    now,                \* Date.now(), in ms
    chatStatus,         \* connectivity indicator written by updateStatus
    sent,               \* envelopes transmitted on the wire
    lastOp,             \* the handler that ran last
    lastExc,            \* the exception that escaped it, or "none"
    nDispatched,        \* number of message events handled
    lastRecvEpoch,      \* epoch of the socket that delivered the last one
    isStreaming,        \* state.isStreaming
    hasReceivedContent, \* state.hasReceivedContent
    currentAIMessage,   \* id of the live message element, 0 for null
    currentAIContent,
    messages,           \* children of #messages, in document order
    nextId,             \* next element id
    streamingUI,        \* updateStreamingUI: stop button shown, input disabled
    inputValue,         \* #message-input value
    nSends,             \* number of sendMessage / stopGeneration calls
    inFlight,           \* a message went out and its response has not ended yet
    terminalOutput,     \* number of lines in #terminal-output
    thoughtsOutput,     \* number of lines in #agent-thoughts
    terminalStatus,     \* terminal overlay status line
    toolHistory,        \* tools.js ledger, newest first
    activeToolId,
    streamTokens,       \* token payloads dispatched since the last stream_start
    streamOpen,         \* a stream_start has not yet met its stream_end/stopped
    streamElem,         \* the element created for the last stream_start
    closedStream,       \* the last message event was the stream_end of an open stream
    msgsAtStart,        \* #messages as it was before the last stream_start
    lastData,           \* the frame of the last message event
    prevData,           \* the frame of the message event before it
    histBeforeLast,     \* toolHistory before the last message event
    histBeforePrev,     \* toolHistory before the message event before it
    afterStopped,       \* a stopped event was handled and no stream_start since
    prevOp,             \* the handler that ran before lastOp
    previewState,       \* preview.js previewState
    hidden,             \* which of the four viewport regions carry class hidden
    frameSrc,           \* #preview-frame src
    imageSrc,           \* #preview-image src
    vncFrameSrc,        \* src of the iframe inside #preview-vnc, Undefined if none
    urlBar,             \* #browser-url value
    previewStatus,      \* #preview-status caption
    openApps,           \* taskbar apps
    windowControls,     \* #preview-window-controls
    isFullscreen,
    nPreviewOps,        \* number of preview operations performed
    lastApp,            \* the appId of the last restoreApp call
    viewBeforeLast,     \* mode and viewport before the last preview operation
    viewBeforePrev,     \* mode and viewport before the one before it
    browserHistory,     \* browser.js history, newest first
    activePage,         \* browser.js activePage: 1 for the newest entry, 0 for null
    currentSessionId,   \* state.currentSessionId
    sessionTasks,       \* loadSession calls suspended at their fetch
    sessionSeq,         \* number of loadSession and newChat calls so far
    loadFailed,         \* the fetch of some loadSession call has failed
    canvasCurrentUrl,   \* canvas.js currentUrl
    canvasUrlInput,     \* #canvas-url value
    canvasIframeSrc,    \* #canvas-iframe src
    canvasStatus,       \* #canvas-status class
    canvasTimers,       \* pending setTimeout callbacks of canvas.js
    canvasMode,         \* canvas.js currentMode
    canvasIframeHidden, \* #canvas-iframe carries class hidden
    canvasOnload,       \* #canvas-iframe has an onload handler
    canvasOnerror,      \* #canvas-iframe has an onerror handler
    canvasNav,          \* the iframe has not yet reported on its last navigation
    canvasTasks,        \* suspended async functions of canvas.js
    canvasSeq,          \* number of timers and tasks created so far
    canvasLoadAt,       \* when the page now in the iframe was put there, or NoTime
    activeAgent,        \* state.activeAgent
    autoRouting,        \* state.autoRouting
    settingsHidden,     \* #settings-modal carries class hidden
    mobileToolsList,    \* #mobile-tools-list innerHTML
    mobileCanvasUrl,    \* #mobile-canvas-url value
    mobileCanvasIframe, \* #mobile-canvas-iframe src
    mobileCanvasStatus, \* #mobile-canvas-status innerHTML
    mobileAgent,        \* caption of #mobile-agent-selector
    nMirrorOps          \* number of canvas and mobile UI operations performed

connVars == <<sockets, timers, now, chatStatus>>
outVars == <<sent, inputValue, nSends, inFlight>>
opVars == <<lastOp, lastExc, prevOp>>
recvVars == <<nDispatched, lastRecvEpoch>>
chatVars == <<isStreaming, hasReceivedContent, currentAIMessage, currentAIContent,
              messages, nextId, streamingUI>>
consoleVars == <<terminalOutput, thoughtsOutput, terminalStatus>>
ledgerVars == <<toolHistory, activeToolId>>
ghostVars == <<streamTokens, streamOpen, streamElem, closedStream, msgsAtStart,
               lastData, prevData, histBeforeLast, histBeforePrev, afterStopped>>
previewVars == <<previewState, hidden, frameSrc, imageSrc, vncFrameSrc, urlBar,
                 previewStatus, openApps, windowControls, isFullscreen, nPreviewOps,
                 lastApp, viewBeforeLast, viewBeforePrev>>

browserVars == <<browserHistory, activePage>>
sessionLoads == <<sessionTasks, sessionSeq, loadFailed>>
sessionVars == <<currentSessionId, sessionLoads>>
canvasVars == <<canvasCurrentUrl, canvasUrlInput, canvasIframeSrc, canvasStatus,
                canvasTimers, canvasMode, canvasIframeHidden, canvasOnload,
                canvasOnerror, canvasNav, canvasTasks, canvasSeq, canvasLoadAt>>
agentVars == <<activeAgent, autoRouting, settingsHidden>>
mirrorVars == <<mobileToolsList, mobileCanvasUrl, mobileCanvasIframe,
                mobileCanvasStatus, mobileAgent, nMirrorOps>>
panelVars == <<browserVars, sessionVars, canvasVars, agentVars, mirrorVars>>

vars == <<connVars, outVars, opVars, recvVars, chatVars, consoleVars, ledgerVars,
          panelVars, ghostVars, previewVars>>

\* -------------------------------------------------------- initial state
Regions == {"placeholder", "frame", "image", "vnc"}

AboutBlank == <<"about:blank">>

WelcomeElement ==
    [id |-> 0, cls |-> "welcome", pending |-> FALSE, html |-> "static",
     src |-> <<>>, hl |-> FALSE]

Init ==
    /\ sockets = <<>>
    /\ timers = {}
    /\ now = 0
    /\ chatStatus = [text |-> "initial", connected |-> FALSE, loading |-> FALSE]
    /\ sent = <<>>
    /\ lastOp = "none"
    /\ lastExc = "none"
    /\ prevOp = "none"
    /\ nDispatched = 0
    /\ lastRecvEpoch = 0
    /\ isStreaming = FALSE
    /\ hasReceivedContent = FALSE
    /\ currentAIMessage = 0
    /\ currentAIContent = <<>>
    /\ messages = <<WelcomeElement>>
    /\ nextId = 1
    /\ streamingUI = FALSE
    /\ inputValue = <<>>
    /\ nSends = 0
    /\ inFlight = FALSE
    /\ terminalOutput = 0
    /\ thoughtsOutput = 0
    /\ terminalStatus = [text |-> <<>>, running |-> FALSE]
    /\ toolHistory = <<>>
    /\ activeToolId = NoTime
    /\ streamTokens = <<>>
    /\ streamOpen = FALSE
    /\ msgsAtStart = <<>>
    /\ streamElem = 0
    /\ closedStream = FALSE
    /\ lastData = [valid |-> TRUE, type |-> "none", tool |-> "none",
                   content |-> Undefined, input |-> Undefined,
                   output |-> Undefined, message |-> Undefined,
                   url |-> Undefined, session |-> Undefined,
                   port |-> 0, path |-> Undefined]
    /\ prevData = lastData
    /\ histBeforeLast = <<>>
    /\ histBeforePrev = <<>>
    /\ afterStopped = FALSE
    /\ previewState = [mode |-> "empty", content |-> Null, timestamp |-> 0]
    /\ hidden = [r \in Regions |-> r # "placeholder"]
    /\ frameSrc = Str(<<>>)
    /\ imageSrc = Str(<<>>)
    /\ vncFrameSrc = Undefined
    /\ urlBar = Str(<<>>)
    /\ previewStatus = <<"Hazir">>
    /\ openApps = <<>>
    /\ windowControls = [hidden |-> TRUE, title |-> "none"]
    /\ isFullscreen = FALSE
    /\ nPreviewOps = 0
    /\ lastApp = "none"
    /\ viewBeforeLast = [mode |-> "empty", visible |-> {"placeholder"},
                         shown |-> Null]
    /\ viewBeforePrev = viewBeforeLast
    /\ browserHistory = <<>>
    /\ activePage = 0
    /\ currentSessionId = Null
    /\ sessionTasks = {}
    /\ sessionSeq = 0
    /\ loadFailed = FALSE
    /\ canvasCurrentUrl = <<>>
    /\ canvasUrlInput = <<>>
    /\ canvasIframeSrc = AboutBlank
    /\ canvasStatus = "idle"
    /\ canvasTimers = {}
    /\ canvasMode = "web"
    /\ canvasIframeHidden = TRUE
    /\ canvasOnload = FALSE
    /\ canvasOnerror = FALSE
    /\ canvasNav = FALSE
    /\ canvasTasks = {}
    /\ canvasSeq = 0
    /\ canvasLoadAt = NoTime
    /\ activeAgent = "supervisor"
    /\ autoRouting = TRUE
    /\ settingsHidden = TRUE
    /\ mobileToolsList = <<>>
    /\ mobileCanvasUrl = <<"localhost:8000">>
    /\ mobileCanvasIframe = AboutBlank
    /\ mobileCanvasStatus = "waiting"
    /\ mobileAgent = "Supervisor"
    /\ nMirrorOps = 0

\* ---------------------------------------------------- connection manager
Epoch == Len(sockets)

\* state.ws.readyState; "none" while state.ws is null
ReadyState == IF Epoch = 0 THEN "none" ELSE sockets[Epoch].state

\* ui.js updateStatus(text, connected)
updateStatus(text, connected) ==
    chatStatus' = [chatStatus EXCEPT !.text = text, !.connected = connected]

\* connectWebSocket(): a new socket replaces state.ws
connectWebSocket(by) ==
    sockets' = Append(sockets,
        [state |-> "connecting", pendingError |-> FALSE, errors |-> 0,
         by |-> by, createdAt |-> now, closedAt |-> NoTime])

\* app.js init() calls connectWebSocket() once
AppInit ==
    /\ Epoch = 0
    /\ connectWebSocket(0)
    /\ lastOp' = "init"
    /\ prevOp' = lastOp
    /\ lastExc' = "none"
    /\ UNCHANGED <<timers, now, chatStatus, outVars, recvVars, chatVars,
                   consoleVars, ledgerVars, panelVars, ghostVars, previewVars>>

\* state.ws.onopen
OnOpen(e) ==
    /\ e \in 1..Epoch
    /\ sockets[e].state = "connecting"
    /\ sockets' = [sockets EXCEPT ![e].state = "open"]
    /\ updateStatus("Baglandi", TRUE)
    /\ lastOp' = "onopen"
    /\ prevOp' = lastOp
    /\ lastExc' = "none"
    /\ UNCHANGED <<timers, now, outVars, recvVars, chatVars,
                   consoleVars, ledgerVars, panelVars, ghostVars, previewVars>>

\* The browser loses the transport of socket e: a clean close, or a failure
\* (withError), after which it fires error and then close on that socket.
\* No message event is fired on the socket from here on.
TransportLost(e, withError) ==
    /\ e \in 1..Epoch
    /\ sockets[e].state \in {"connecting", "open"}
    /\ sockets' = [sockets EXCEPT ![e].state = "closing",
                                  ![e].pendingError = withError]
    /\ UNCHANGED <<timers, now, chatStatus, outVars, opVars, recvVars, chatVars,
                   consoleVars, ledgerVars, panelVars, ghostVars, previewVars>>

\* mutation: the error handler schedules a reconnect as well
OnError_Reconnects(e) ==
    /\ e \in 1..Epoch
    /\ sockets[e].state = "closing"
    /\ sockets[e].pendingError
    /\ sockets' = [sockets EXCEPT ![e].pendingError = FALSE,
                                  ![e].errors = sockets[e].errors + 1]
    /\ updateStatus("Baglanti hatasi", FALSE)
    /\ timers' = timers \cup {[src |-> e, due |-> now + ReconnectDelay, n |-> 2]}
    /\ lastOp' = "onerror"
    /\ prevOp' = lastOp
    /\ lastExc' = "none"
    /\ UNCHANGED <<now, outVars, recvVars, chatVars,
                   consoleVars, ledgerVars, panelVars, ghostVars, previewVars>>

\* state.ws.onerror
OnError(e) ==
    /\ e \in 1..Epoch
    /\ sockets[e].state = "closing"
    /\ sockets[e].pendingError
    /\ sockets' = [sockets EXCEPT ![e].pendingError = FALSE,
                                  ![e].errors = sockets[e].errors + 1]
    /\ updateStatus("Baglanti hatasi", FALSE)
    /\ lastOp' = "onerror"
    /\ prevOp' = lastOp
    /\ lastExc' = "none"
    /\ UNCHANGED <<timers, now, outVars, recvVars, chatVars,
                   consoleVars, ledgerVars, panelVars, ghostVars, previewVars>>

\* mutation: the close handler reconnects without the delay
OnClose_NoDelay(e) ==
    /\ e \in 1..Epoch
    /\ sockets[e].state = "closing"
    /\ ~sockets[e].pendingError
    /\ sockets' = [sockets EXCEPT ![e].state = "closed", ![e].closedAt = now]
    /\ updateStatus("Baglanti kesildi", FALSE)
    /\ timers' = timers \cup {[src |-> e, due |-> now, n |-> 1]}
    /\ lastOp' = "onclose"
    /\ prevOp' = lastOp
    /\ lastExc' = "none"
    /\ UNCHANGED <<now, outVars, recvVars, chatVars,
                   consoleVars, ledgerVars, panelVars, ghostVars, previewVars>>

\* state.ws.onclose
OnClose(e) ==
    /\ e \in 1..Epoch
    /\ sockets[e].state = "closing"
    /\ ~sockets[e].pendingError
    /\ sockets' = [sockets EXCEPT ![e].state = "closed", ![e].closedAt = now]
    /\ updateStatus("Baglanti kesildi", FALSE)
    /\ timers' = timers \cup {[src |-> e, due |-> now + ReconnectDelay, n |-> 1]}
    /\ lastOp' = "onclose"
    /\ prevOp' = lastOp
    /\ lastExc' = "none"
    /\ UNCHANGED <<now, outVars, recvVars, chatVars,
                   consoleVars, ledgerVars, panelVars, ghostVars, previewVars>>

\* the reconnect timer fires: connectWebSocket()
ReconnectTimer(t) ==
    /\ t \in timers
    /\ t.due <= now
    /\ Epoch < MaxEpoch
    /\ timers' = timers \ {t}
    /\ connectWebSocket(t.src)
    /\ lastOp' = "timer"
    /\ prevOp' = lastOp
    /\ lastExc' = "none"
    /\ UNCHANGED <<now, chatStatus, outVars, recvVars, chatVars,
                   consoleVars, ledgerVars, panelVars, ghostVars, previewVars>>

\* time passes
Tick ==
    /\ now + TickMs <= MaxTime
    /\ now' = now + TickMs
    /\ UNCHANGED <<sockets, timers, chatStatus, outVars, opVars, recvVars, chatVars,
                   consoleVars, ledgerVars, panelVars, ghostVars, previewVars>>

\* ------------------------------------------------------------ chat.js
AIElement(id) ==
    [id |-> id, cls |-> "ai", pending |-> TRUE, html |-> "typing",
     src |-> <<>>, hl |-> FALSE]

SystemElement(id, text) ==
    [id |-> id, cls |-> "system", pending |-> FALSE, html |-> "text",
     src |-> text, hl |-> FALSE]

UserElement(id, text) ==
    [id |-> id, cls |-> "user", pending |-> FALSE, html |-> "text",
     src |-> text, hl |-> FALSE]

ToolElement(id, type, text) ==
    [id |-> id, cls |-> "tool-activity", pending |-> FALSE,
     html |-> IF type = "start" THEN "tool-start" ELSE "tool-end",
     src |-> text, hl |-> FALSE]

InDocument(ms, id) == \E i \in 1..Len(ms) : ms[i].id = id

IndexOf(ms, id) == CHOOSE i \in 1..Len(ms) : ms[i].id = id

RemoveElement(ms, id) == SelectSeq(ms, LAMBDA m : m.id # id)

InsertBefore(ms, el, id) ==
    LET i == IndexOf(ms, id)
    IN  SubSeq(ms, 1, i - 1) \o <<el>> \o SubSeq(ms, i, Len(ms))

\* element.innerHTML = renderMarkdown(text): the element shows the markdown
\* rendering of text, and loses any highlighting it had
Rendered(ms, id, text) ==
    [i \in 1..Len(ms) |->
        IF ms[i].id = id
        THEN [ms[i] EXCEPT !.html = "md", !.src = text, !.hl = FALSE]
        ELSE ms[i]]

RemovePending(ms, id) ==
    [i \in 1..Len(ms) |->
        IF ms[i].id = id THEN [ms[i] EXCEPT !.pending = FALSE] ELSE ms[i]]

\* utils.js highlightCode(): every rendered code block of the document
highlightCode(ms) ==
    [i \in 1..Len(ms) |->
        IF ms[i].html = "md" THEN [ms[i] EXCEPT !.hl = TRUE] ELSE ms[i]]

\* ui.js updateStreamingUI(streaming)
updateStreamingUI(streaming) ==
    /\ streamingUI' = streaming
    /\ chatStatus' = [chatStatus EXCEPT
            !.loading = streaming,
            !.text = IF streaming THEN "Yanit yaziliyor" ELSE "Hazir"]

\* createAIMessageElement()
createAIMessageElement ==
    /\ currentAIContent' = <<>>
    /\ hasReceivedContent' = FALSE
    /\ currentAIMessage' = nextId
    /\ messages' = Append(messages, AIElement(nextId))
    /\ nextId' = nextId + 1

\* mutation: the token replaces the buffer instead of being appended to it
appendToken_Overwrites(token) ==
    IF currentAIMessage = 0
    THEN /\ lastExc' = "none"
         /\ UNCHANGED <<hasReceivedContent, currentAIMessage, currentAIContent,
                        messages>>
    ELSE IF ~hasReceivedContent /\ ThrowsOnMethod(token)
    THEN /\ lastExc' = "TypeError"
         /\ UNCHANGED <<hasReceivedContent, currentAIMessage, currentAIContent,
                        messages>>
    ELSE LET first == ~hasReceivedContent /\ Trim(token.v) # <<>>
             content == ToStr(token)
             ms == IF first THEN RemovePending(messages, currentAIMessage)
                   ELSE messages
         IN  /\ hasReceivedContent' = (hasReceivedContent \/ first)
             /\ currentAIContent' = content
             /\ messages' = Rendered(ms, currentAIMessage, content)
             /\ lastExc' = "none"
             /\ UNCHANGED currentAIMessage

\* appendToken(token)
appendToken(token) ==
    IF currentAIMessage = 0
    THEN /\ lastExc' = "none"
         /\ UNCHANGED <<hasReceivedContent, currentAIMessage, currentAIContent,
                        messages>>
    ELSE IF ~hasReceivedContent /\ ThrowsOnMethod(token)
    THEN /\ lastExc' = "TypeError"
         /\ UNCHANGED <<hasReceivedContent, currentAIMessage, currentAIContent,
                        messages>>
    ELSE LET first == ~hasReceivedContent /\ Trim(token.v) # <<>>
             content == currentAIContent \o ToStr(token)
             ms == IF first THEN RemovePending(messages, currentAIMessage)
                   ELSE messages
         IN  /\ hasReceivedContent' = (hasReceivedContent \/ first)
             /\ currentAIContent' = content
             /\ messages' = Rendered(ms, currentAIMessage, content)
             /\ lastExc' = "none"
             /\ UNCHANGED currentAIMessage

\* mutation: an empty response is kept instead of removed
finalizeAIMessage_KeepsEmpty ==
    /\ messages' =
        IF currentAIMessage # 0 /\ ~hasReceivedContent
        THEN RemovePending(messages, currentAIMessage)
        ELSE IF currentAIMessage # 0 /\ currentAIContent # <<>>
        THEN highlightCode(Rendered(RemovePending(messages, currentAIMessage),
                                    currentAIMessage, currentAIContent))
        ELSE messages
    /\ currentAIMessage' = 0
    /\ currentAIContent' = <<>>
    /\ hasReceivedContent' = FALSE

\* finalizeAIMessage()
finalizeAIMessage ==
    /\ messages' =
        IF currentAIMessage # 0 /\ ~hasReceivedContent
        THEN RemoveElement(messages, currentAIMessage)
        ELSE IF currentAIMessage # 0 /\ currentAIContent # <<>>
        THEN highlightCode(Rendered(RemovePending(messages, currentAIMessage),
                                    currentAIMessage, currentAIContent))
        ELSE messages
    /\ currentAIMessage' = 0
    /\ currentAIContent' = <<>>
    /\ hasReceivedContent' = FALSE

\* addToolActivity(toolName, content, type); content.substring throws on a
\* value that is not a string, before anything is attached to the document
addToolActivityThrows(content) ==
    \/ ThrowsOnMethod(content)
    \/ (currentAIMessage # 0 /\ ~InDocument(messages, currentAIMessage))

addToolActivityExc(content) ==
    IF ThrowsOnMethod(content) THEN "TypeError"
    ELSE IF currentAIMessage # 0 /\ ~InDocument(messages, currentAIMessage)
    THEN "NotFoundError"
    ELSE "none"

addToolActivity(toolName, content, type) ==
    IF ThrowsOnMethod(content)
    THEN UNCHANGED <<terminalOutput, messages, nextId>>
    ELSE /\ terminalOutput' = terminalOutput + 1
         /\ IF currentAIMessage # 0 /\ InDocument(messages, currentAIMessage)
            THEN /\ messages' = InsertBefore(messages,
                        ToolElement(nextId, type, content.v), currentAIMessage)
                 /\ nextId' = nextId + 1
            ELSE UNCHANGED <<messages, nextId>>

\* showError(message)
showError(message) ==
    /\ messages' = Append(messages,
            SystemElement(nextId, <<"Hata: ">> \o ToStr(message)))
    /\ nextId' = nextId + 1

\* showSystemMessage(message)
showSystemMessage(message) ==
    /\ messages' = Append(messages, SystemElement(nextId, ToStr(message)))
    /\ nextId' = nextId + 1

\* ---------------------------------------------------------- sessions.js
\* addAIMessage(content): rendered at once, then highlightCode()
AIMessageElement(id, text) ==
    [id |-> id, cls |-> "ai", pending |-> FALSE, html |-> "md", src |-> text,
     hl |-> TRUE]

\* the element loadSession appends for a stored message of a role it knows
StoredElement(id, msg) ==
    IF msg.role = "human" THEN UserElement(id, msg.content)
    ELSE AIMessageElement(id, msg.content)

\* elements.messages.innerHTML = '' and data.messages.forEach(...)
ShowStored(msgs) ==
    LET known == SelectSeq(msgs, LAMBDA m : m.role \in {"human", "ai"})
    IN  /\ messages' = [i \in 1..Len(known) |-> StoredElement(nextId + i - 1, known[i])]
        /\ nextId' = nextId + Len(known)

\* what the sessions module does not write
sessionRest == <<connVars, outVars, recvVars, isStreaming, hasReceivedContent,
                 currentAIMessage, currentAIContent, streamingUI, consoleVars,
                 ledgerVars, browserVars, canvasVars, agentVars, mirrorVars,
                 ghostVars, previewVars>>

\* loadSession(sessionId) up to its await of the fetch
LoadSession(sessionId) ==
    /\ sessionSeq < MaxSessionOps
    /\ currentSessionId' = Str(<<sessionId>>)
    /\ sessionTasks' = sessionTasks \cup {[id |-> sessionId, n |-> sessionSeq]}
    /\ sessionSeq' = sessionSeq + 1
    /\ lastOp' = "loadSession"
    /\ prevOp' = lastOp
    /\ lastExc' = "none"
    /\ UNCHANGED <<sessionRest, messages, nextId, loadFailed>>

\* loadSession goes on after its fetch: with the stored messages of the
\* session, or in the catch block when the request failed
LoadSessionDone(task, ok, stored) ==
    /\ task \in sessionTasks
    /\ sessionTasks' = sessionTasks \ {task}
    /\ IF ok THEN ShowStored(stored) ELSE UNCHANGED <<messages, nextId>>
    /\ loadFailed' = (loadFailed \/ ~ok)
    /\ lastOp' = "loadSession:done"
    /\ prevOp' = lastOp
    /\ lastExc' = "none"
    /\ UNCHANGED <<sessionRest, currentSessionId, sessionSeq>>

\* newChat()
NewChat ==
    /\ sessionSeq < MaxSessionOps
    /\ sessionSeq' = sessionSeq + 1
    /\ currentSessionId' = Null
    /\ messages' = <<WelcomeElement>>
    /\ lastOp' = "newChat"
    /\ prevOp' = lastOp
    /\ lastExc' = "none"
    /\ UNCHANGED <<sessionRest, nextId, sessionTasks, loadFailed>>

\* ------------------------------------------------------------ tools.js
\* The id 'tool-' + Date.now() is represented by its numeric part; NoTime
\* stands for null in activeToolId, endTime and duration.
ToolEntry(toolName, input) ==
    [id |-> now, tool |-> toolName, input |-> input, output |-> Null,
     status |-> "running", startTime |-> now, endTime |-> NoTime,
     duration |-> NoTime]

\* mutation: past the cap the entry at the front is dropped, not the last one
addToolStart_EvictsNewest(toolName, input) ==
    LET h == <<ToolEntry(toolName, input)>> \o toolHistory
    IN  /\ toolHistory' = IF Len(h) > MAX_HISTORY THEN Tail(h) ELSE h
        /\ activeToolId' = now

\* addToolStart(toolName, input)
addToolStart(toolName, input) ==
    LET h == <<ToolEntry(toolName, input)>> \o toolHistory
    IN  /\ toolHistory' = IF Len(h) > MAX_HISTORY
                          THEN SubSeq(h, 1, Len(h) - 1) ELSE h
        /\ activeToolId' = now

Running(toolName) ==
    {i \in 1..Len(toolHistory) :
        toolHistory[i].tool = toolName /\ toolHistory[i].status = "running"}

\* mutation: the last match in array order instead of the first
FindRunning_Oldest(toolName) ==
    IF Running(toolName) = {} THEN 0
    ELSE CHOOSE i \in Running(toolName) : \A j \in Running(toolName) : i >= j

\* toolHistory.find(...): the first match in array order, or 0
FindRunning(toolName) ==
    IF Running(toolName) = {} THEN 0
    ELSE CHOOSE i \in Running(toolName) : \A j \in Running(toolName) : i <= j

\* mutation: every running entry of the tool is completed, not only the found one
addToolEnd_CompletesAll(toolName, output) ==
    /\ toolHistory' =
            [i \in 1..Len(toolHistory) |->
                IF i \in Running(toolName)
                THEN [toolHistory[i] EXCEPT
                        !.output = output,
                        !.status = "completed",
                        !.endTime = now,
                        !.duration = now - toolHistory[i].startTime]
                ELSE toolHistory[i]]
    /\ activeToolId' = NoTime

\* addToolEnd(toolName, output)
addToolEnd(toolName, output) ==
    LET i == FindRunning(toolName)
    IN  /\ toolHistory' =
            IF i = 0 THEN toolHistory
            ELSE [toolHistory EXCEPT
                    ![i].output = output,
                    ![i].status = "completed",
                    ![i].endTime = now,
                    ![i].duration = now - toolHistory[i].startTime]
        /\ activeToolId' = NoTime

\* console.js appendLog('agent', ...)
appendAgentLog == thoughtsOutput' = thoughtsOutput + 1

\* preview.js setTerminalStatus(status, isRunning)
setTerminalStatus(status, isRunning) ==
    terminalStatus' = [text |-> status, running |-> isRunning]

\* ----------------------------------------------------------- preview.js
Kinds == {"web", "image", "vnc"}

AppId(kind) ==
    CASE kind = "web" -> "app_web"
      [] kind = "image" -> "app_image"
      [] kind = "vnc" -> "app_vnc"
      [] OTHER -> "app_empty"

AppIds == {AppId(k) : k \in Kinds}

AppName(kind) ==
    CASE kind = "web" -> "Web Preview"
      [] kind = "image" -> "Image Viewer"
      [] OTHER -> "VNC Desktop"

\* the record pushed by addAppToTaskbar: id, name, icon, type, minimized
TaskbarApp(kind) ==
    [id |-> AppId(kind), name |-> AppName(kind), icon |-> kind,
     type |-> kind, minimized |-> FALSE]

\* app.content of a taskbar record
AppContent(app) ==
    IF "content" \in DOMAIN app THEN app.content ELSE Undefined

HasApp(apps, id) == \E i \in 1..Len(apps) : apps[i].id = id

\* the noVNC page address built by showVNC
VncUrl(port) ==
    Str(<<"http://localhost:", ToString(port), "/vnc.html">>)

VncBar(port) == Str(<<"VNC: localhost:", ToString(port)>>)

DefaultVncContent == Str(<<"ws://localhost:6080/websockify">>)

\* the regions of the viewport that do not carry class hidden
Visible == {r \in Regions : ~hidden[r]}

\* what the viewport shows: the source loaded in the visible region
Shown ==
    IF ~hidden["frame"] THEN frameSrc
    ELSE IF ~hidden["image"] THEN imageSrc
    ELSE IF ~hidden["vnc"] THEN vncFrameSrc
    ELSE Null

View == [mode |-> previewState.mode, visible |-> Visible, shown |-> Shown]

\* hideAll(els) followed by unhiding one region
ShowOnly(region) == hidden' = [r \in Regions |-> r # region]

\* showWindowControls(appName)
showWindowControls(appName) == [hidden |-> FALSE, title |-> appName]

\* mutation: the app is pushed without looking for its id
addAppToTaskbar_Always(apps, kind) ==
    openApps' = Append(apps, TaskbarApp(kind))

\* addAppToTaskbar(appInfo): an app whose id is already registered is left
\* as it is, and the window controls are then not shown either
addAppToTaskbar(apps, kind) ==
    openApps' = IF HasApp(apps, AppId(kind)) THEN apps
                ELSE Append(apps, TaskbarApp(kind))

\* the window controls after a show routine registered kind from apps
ControlsAfterAdd(apps, kind) ==
    IF HasApp(apps, AppId(kind)) THEN windowControls
    ELSE showWindowControls(AppName(kind))

\* showWeb(url) refuses a missing or empty url
InvalidUrl(url) == ~Truthy(url) \/ url = Str(<<"undefined">>)

\* showWeb(url), with apps as the taskbar it finds
showWeb(url, apps) ==
    IF InvalidUrl(url)
    THEN /\ openApps' = apps
         /\ UNCHANGED <<hidden, frameSrc, imageSrc, vncFrameSrc, urlBar>>
    ELSE /\ ShowOnly("frame")
         /\ frameSrc' = url
         /\ urlBar' = url
         /\ addAppToTaskbar(apps, "web")
         /\ UNCHANGED <<imageSrc, vncFrameSrc>>

\* showImage(src)
showImage(src, apps) ==
    /\ ShowOnly("image")
    /\ imageSrc' = src
    /\ addAppToTaskbar(apps, "image")
    /\ UNCHANGED <<frameSrc, vncFrameSrc, urlBar>>

\* showVNC(data); port 0 stands for a data object without port
showVNC(port, apps) ==
    LET vncPort == IF port = 0 THEN DefaultVncPort ELSE port
    IN  /\ ShowOnly("vnc")
        /\ vncFrameSrc' = VncUrl(vncPort)
        /\ urlBar' = VncBar(vncPort)
        /\ addAppToTaskbar(apps, "vnc")
        /\ UNCHANGED <<frameSrc, imageSrc>>

\* showEmpty(), also the effect of hideAllContent()
showEmpty == ShowOnly("placeholder")

\* updateStatus() of preview.js
StatusCaption(mode, content) ==
    CASE mode = "web" -> <<"web">> \o ToStr(content)
      [] mode = "image" -> <<"Gorsel Onizleme">>
      [] mode = "vnc" -> <<"Masaustu (VNC)">>
      [] OTHER -> <<"Hazir">>

RecordView(op, appId) ==
    /\ nPreviewOps' = nPreviewOps + 1
    /\ lastOp' = op
    /\ prevOp' = lastOp
    /\ lastExc' = "none"
    /\ lastApp' = appId
    /\ viewBeforeLast' = View
    /\ viewBeforePrev' = viewBeforeLast

\* setPreviewContent(type, data) with data = {url, port}
setPreviewContent(type, url, port) ==
    /\ CASE type = "web" ->
              /\ previewState' = [mode |-> "web", content |-> url,
                                  timestamp |-> now]
              /\ showWeb(url, openApps)
              /\ windowControls' = IF InvalidUrl(url) THEN windowControls
                                   ELSE ControlsAfterAdd(openApps, "web")
         [] type = "image" ->
              /\ previewState' = [mode |-> "image", content |-> url,
                                  timestamp |-> now]
              /\ showImage(url, openApps)
              /\ windowControls' = ControlsAfterAdd(openApps, "image")
         [] type = "vnc" ->
              /\ previewState' = [mode |-> "vnc",
                    content |-> IF Truthy(url) THEN url ELSE DefaultVncContent,
                    timestamp |-> now]
              /\ showVNC(port, openApps)
              /\ windowControls' = ControlsAfterAdd(openApps, "vnc")
         [] OTHER ->
              /\ previewState' = [previewState EXCEPT !.mode = "empty",
                                                      !.timestamp = now]
              /\ showEmpty
              /\ UNCHANGED <<frameSrc, imageSrc, vncFrameSrc, urlBar, openApps,
                             windowControls>>
    /\ previewStatus' = StatusCaption(previewState'.mode, previewState'.content)

\* a call of setPreviewContent from the page
SetPreviewContent(type, url, port) ==
    /\ nPreviewOps < MaxPreviewOps
    /\ RecordView("setPreviewContent", "none")
    /\ setPreviewContent(type, url, port)
    /\ UNCHANGED <<connVars, outVars, recvVars, chatVars, consoleVars,
                   ledgerVars, panelVars, ghostVars, isFullscreen>>

\* mutation: close leaves the taskbar as it is
WindowClose_KeepsApp ==
    /\ nPreviewOps < MaxPreviewOps
    /\ RecordView("close", "none")
    /\ showEmpty
    /\ windowControls' = [windowControls EXCEPT !.hidden = TRUE]
    /\ openApps' = openApps
    /\ previewState' = [previewState EXCEPT !.mode = "empty"]
    /\ UNCHANGED <<connVars, outVars, recvVars, chatVars, consoleVars,
                   ledgerVars, panelVars, ghostVars, frameSrc, imageSrc, vncFrameSrc,
                   urlBar, previewStatus, isFullscreen>>

\* handleWindowAction('close'): hideAllContent, hide the controls,
\* removeActiveApp
WindowClose ==
    /\ nPreviewOps < MaxPreviewOps
    /\ RecordView("close", "none")
    /\ showEmpty
    /\ windowControls' = [windowControls EXCEPT !.hidden = TRUE]
    /\ openApps' = IF previewState.mode # "empty"
                   THEN SelectSeq(openApps,
                          LAMBDA a : a.id # AppId(previewState.mode))
                   ELSE openApps
    /\ previewState' = [previewState EXCEPT !.mode = "empty"]
    /\ UNCHANGED <<connVars, outVars, recvVars, chatVars, consoleVars,
                   ledgerVars, panelVars, ghostVars, frameSrc, imageSrc, vncFrameSrc,
                   urlBar, previewStatus, isFullscreen>>

\* handleWindowAction('minimize'): minimizeCurrentApp
WindowMinimize ==
    /\ nPreviewOps < MaxPreviewOps
    /\ RecordView("minimize", "none")
    /\ openApps' = [i \in 1..Len(openApps) |->
            IF openApps[i].id = AppId(previewState.mode)
            THEN [openApps[i] EXCEPT !.minimized = TRUE] ELSE openApps[i]]
    /\ showEmpty
    /\ windowControls' = [windowControls EXCEPT !.hidden = TRUE]
    /\ UNCHANGED <<connVars, outVars, recvVars, chatVars, consoleVars,
                   ledgerVars, panelVars, ghostVars, previewState, frameSrc, imageSrc,
                   vncFrameSrc, urlBar, previewStatus, isFullscreen>>

\* handleWindowAction('maximize'): toggleFullscreen
WindowMaximize ==
    /\ nPreviewOps < MaxPreviewOps
    /\ RecordView("maximize", "none")
    /\ isFullscreen' = ~isFullscreen
    /\ UNCHANGED <<connVars, outVars, recvVars, chatVars, consoleVars,
                   ledgerVars, panelVars, ghostVars, previewState, hidden, frameSrc,
                   imageSrc, vncFrameSrc, urlBar, previewStatus, openApps,
                   windowControls>>

\* restoreApp(appId)
RestoreApp(appId) ==
    /\ nPreviewOps < MaxPreviewOps
    /\ RecordView("restore", appId)
    /\ IF HasApp(openApps, appId)
       THEN LET app == openApps[CHOOSE i \in 1..Len(openApps) :
                                    openApps[i].id = appId]
                apps == [i \in 1..Len(openApps) |->
                            IF openApps[i].id = appId
                            THEN [openApps[i] EXCEPT !.minimized = FALSE]
                            ELSE openApps[i]]
            IN  /\ CASE app.type = "web" -> showWeb(AppContent(app), apps)
                     [] app.type = "vnc" -> showVNC(0, apps)
                     [] OTHER -> showImage(AppContent(app), apps)
                /\ windowControls' = showWindowControls(app.name)
       ELSE UNCHANGED <<hidden, frameSrc, imageSrc, vncFrameSrc, urlBar,
                        openApps, windowControls>>
    /\ UNCHANGED <<connVars, outVars, recvVars, chatVars, consoleVars,
                   ledgerVars, panelVars, ghostVars, previewState, previewStatus,
                   isFullscreen>>

\* ----------------------------------------------------------- browser.js
\* serial identifies the entry object: activePage holds the serial of the
\* entry it refers to, 0 for null
NextSerial ==
    IF browserHistory = <<>> THEN 1
    ELSE 1 + (CHOOSE m \in {browserHistory[i].serial : i \in 1..Len(browserHistory)} :
                \A i \in 1..Len(browserHistory) : browserHistory[i].serial <= m)

PageEntry(tool, url) ==
    [serial |-> NextSerial, id |-> now, tool |-> tool, url |-> url, title |-> url,
     content |-> Null, status |-> "loading", startTime |-> now,
     endTime |-> NoTime]

\* addBrowserStart(tool, url)
addBrowserStart(tool, url) ==
    LET h == <<PageEntry(tool, url)>> \o browserHistory
    IN  /\ browserHistory' = IF Len(h) > BROWSER_MAX_HISTORY
                             THEN SubSeq(h, 1, Len(h) - 1) ELSE h
        /\ activePage' = NextSerial

\* content.match(/<title>([^<]+)<\/title>/i): the text between the first
\* title tags, <<>> when there is no match
TitleMatch(c) ==
    LET hits == {i \in 1..Len(c) :
                    /\ c[i] = "<title>" /\ i + 2 <= Len(c)
                    /\ c[i + 1] \notin {"<title>", "</title>"}
                    /\ c[i + 2] = "</title>"}
    IN  IF hits = {} THEN <<>>
        ELSE <<c[1 + CHOOSE i \in hits : \A j \in hits : i <= j]>>

\* addBrowserResult(tool, content): written through activePage, so an entry
\* that has left the history is not shown
addBrowserResult(tool, content) ==
    /\ browserHistory' =
        [i \in 1..Len(browserHistory) |->
            IF /\ activePage # 0
               /\ browserHistory[i].serial = activePage
               /\ browserHistory[i].tool = tool
            THEN [browserHistory[i] EXCEPT
                    !.content = content,
                    !.status = "loaded",
                    !.endTime = now,
                    !.title = IF Truthy(content) /\ TitleMatch(content.v) # <<>>
                              THEN Str(TitleMatch(content.v))
                              ELSE browserHistory[i].title]
            ELSE browserHistory[i]]
    /\ activePage' = 0

\* ------------------------------------------------------------ canvas.js
\* url.startsWith('http://') || url.startsWith('https://')
StartsWithScheme(t) == t # <<>> /\ t[1] \in {"http://", "https://"}

VncPage == "/vnc.html?autoconnect=true&resize=scale&reconnect=true"

\* the symbols that are the path of a URL
PathSymbols == {"/", VncPage}

\* what reading iframe.src returns after url was assigned to it: the URL in
\* its serialized form, in which an http(s) URL always has a path
Resolve(url) ==
    IF /\ StartsWithScheme(url) /\ Len(url) > 1
       /\ ~\E i \in 1..Len(url) : url[i] \in PathSymbols
    THEN url \o <<"/">>
    ELSE url

\* the noVNC address connectVnc loads
CanvasVncUrl == <<"http://", "localhost:16080", VncPage>>

\* URL.createObjectURL of the page built from an HTML file
BlobUrl(file) == <<"blob:">> \o file

\* `localhost:${port}`
PortText(port) == <<"localhost:" \o ToString(port)>>

\* the state of the canvas module and of its elements
Canvas ==
    [mode |-> canvasMode, url |-> canvasCurrentUrl, input |-> canvasUrlInput,
     src |-> canvasIframeSrc, hid |-> canvasIframeHidden,
     status |-> canvasStatus, onload |-> canvasOnload,
     onerror |-> canvasOnerror, nav |-> canvasNav, timers |-> canvasTimers,
     tasks |-> canvasTasks, seq |-> canvasSeq, loadAt |-> canvasLoadAt]

SetCanvas(c) ==
    /\ canvasMode' = c.mode
    /\ canvasCurrentUrl' = c.url
    /\ canvasUrlInput' = c.input
    /\ canvasIframeSrc' = c.src
    /\ canvasIframeHidden' = c.hid
    /\ canvasStatus' = c.status
    /\ canvasOnload' = c.onload
    /\ canvasOnerror' = c.onerror
    /\ canvasNav' = c.nav
    /\ canvasTimers' = c.timers
    /\ canvasTasks' = c.tasks
    /\ canvasSeq' = c.seq
    /\ canvasLoadAt' = c.loadAt

CanvasModes == {"web", "html", "vnc"}

\* setTimeout(callback, delay)
AddTimer(c, kind, arg, delay) ==
    [c EXCEPT !.timers = @ \cup {[kind |-> kind, arg |-> arg,
                                  due |-> now + delay, n |-> c.seq]},
              !.seq = @ + 1]

\* an async function suspended at an await
AddTask(c, fn, arg) ==
    [c EXCEPT !.tasks = @ \cup {[fn |-> fn, arg |-> arg, n |-> c.seq]},
              !.seq = @ + 1]

\* setCanvasStatus(status, text)
setCanvasStatus(c, status) == [c EXCEPT !.status = status]

\* resetCanvas()
resetCanvas(c) ==
    setCanvasStatus([c EXCEPT !.src = AboutBlank, !.hid = TRUE, !.nav = TRUE,
                              !.loadAt = NoTime], "idle")

\* switchMode(mode); loadHtmlFiles() and checkVncStatus(), which it starts,
\* write the file select and the #vnc-status caption only
switchMode(c, mode) == resetCanvas([c EXCEPT !.mode = mode])

\* the timeout callback of loadInIframe(url)
loadTimeout(c, url) ==
    IF c.src = url THEN setCanvasStatus(c, "connected") ELSE c

\* loadInIframe(url)
loadInIframe(c, url) ==
    AddTimer([c EXCEPT !.url = url, !.status = "loading", !.hid = FALSE,
                       !.src = Resolve(url), !.nav = TRUE, !.onload = TRUE,
                       !.onerror = TRUE, !.loadAt = now],
             "load", url, LoadTimeout)

\* loadWebUrl(url); <<>> stands for a call without url, which reads #canvas-url
loadWebUrl(c0, url) ==
    LET c == IF c0.mode # "web" THEN switchMode(c0, "web") ELSE c0
        targetUrl == IF url # <<>> THEN url ELSE Trim(c.input)
        fullUrl == IF StartsWithScheme(targetUrl) THEN targetUrl
                   ELSE <<"http://">> \o targetUrl
    IN  IF targetUrl = <<>> THEN c
        ELSE loadInIframe([c EXCEPT !.input = targetUrl], fullUrl)

\* loadHtmlFile(filePath) up to its await of the file's content
loadHtmlFile(c0, file) ==
    LET c == IF c0.mode # "html" THEN switchMode(c0, "html") ELSE c0
    IN  AddTask(setCanvasStatus(c, "loading"), "loadHtmlFile", file)

\* displayHtmlContent(htmlContent, filename): no timeout is set here
displayHtmlContent(c, file) ==
    [c EXCEPT !.url = BlobUrl(file), !.hid = FALSE, !.src = BlobUrl(file),
              !.nav = TRUE, !.onload = TRUE, !.loadAt = now]

\* showVncError(message)
showVncError(c) == [c EXCEPT !.hid = TRUE]

\* connectVnc() up to its await of the readiness probe
connectVnc(c0) ==
    LET c == IF c0.mode # "vnc" THEN switchMode(c0, "vnc") ELSE c0
    IN  AddTask(setCanvasStatus(c, "loading"), "connectVnc:probe", <<>>)

\* the last part of connectVnc(): the noVNC page is loaded
connectVncLoad(c) == loadInIframe(setCanvasStatus(c, "loading"), CanvasVncUrl)

\* handleServerStart(port, type)
handleServerStart(c, port) ==
    AddTimer([c EXCEPT !.input = PortText(port)], "server", PortText(port), 2000)

\* handleHtmlCreated(filePath)
handleHtmlCreated(c, path) == AddTimer(c, "html", path, 1000)

\* handleGuiAppStart()
handleGuiAppStart(c) == AddTimer(c, "gui", <<>>, 2000)

\* what a setTimeout callback of canvas.js does
timerCallback(c, t) ==
    CASE t.kind = "load" -> loadTimeout(c, t.arg)
      [] t.kind = "server" -> loadWebUrl(switchMode(c, "web"), t.arg)
      [] t.kind = "html" ->
            AddTask(switchMode(c, "html"), "handleHtmlCreated", t.arg)
      [] t.kind = "gui" -> connectVnc(switchMode(c, "vnc"))
      [] OTHER -> connectVncLoad(c)

\* the outcomes of an awaited request
Outcomes == {"ok", "no", "rejected"}

\* an async function goes on after its await.  For loadHtmlFile "ok" is a
\* response with the content and anything else ends in the catch block; for
\* the probe of connectVnc "ok" is a bridge that is running and "no" one that
\* is not; for its start request "ok" is success
resume(c, task, outcome) ==
    CASE task.fn = "handleHtmlCreated" -> loadHtmlFile(c, task.arg)
      [] task.fn = "loadHtmlFile" ->
            IF outcome = "ok" THEN displayHtmlContent(c, task.arg)
            ELSE setCanvasStatus(c, "error")
      [] task.fn = "connectVnc:probe" ->
            IF outcome = "ok" THEN connectVncLoad(c)
            ELSE IF outcome = "no"
            THEN AddTask(setCanvasStatus(c, "loading"), "connectVnc:start", <<>>)
            ELSE showVncError(setCanvasStatus(c, "error"))
      [] OTHER ->
            IF outcome = "ok" THEN AddTimer(c, "settle", <<>>, 2000)
            ELSE showVncError(setCanvasStatus(c, "error"))

\* the record of one canvas or mobile UI operation
RecordPanelOp(op) ==
    /\ nMirrorOps' = nMirrorOps + 1
    /\ lastOp' = op
    /\ prevOp' = lastOp
    /\ lastExc' = "none"

\* the record of one callback of the canvas
RecordCallback(op) ==
    /\ lastOp' = op
    /\ prevOp' = lastOp
    /\ lastExc' = "none"

mobileView == <<mobileToolsList, mobileCanvasUrl, mobileCanvasIframe,
                mobileCanvasStatus, mobileAgent>>

\* what the canvas module does not write
canvasRest == <<connVars, outVars, recvVars, chatVars, consoleVars, ledgerVars,
                browserVars, sessionVars, agentVars, ghostVars, previewVars>>

\* loadWebUrl() after text was typed into #canvas-url
LoadWebUrl(text) ==
    /\ nMirrorOps < MaxMirrorOps
    /\ RecordPanelOp("loadWebUrl")
    /\ SetCanvas(loadWebUrl([Canvas EXCEPT !.input = text], <<>>))
    /\ UNCHANGED <<canvasRest, mobileView>>

\* a click on the mode button of mode
SwitchMode(mode) ==
    /\ nMirrorOps < MaxMirrorOps
    /\ RecordPanelOp("switchMode")
    /\ SetCanvas(switchMode(Canvas, mode))
    /\ UNCHANGED <<canvasRest, mobileView>>

\* a file is chosen in #canvas-html-select
LoadHtmlFile(file) ==
    /\ nMirrorOps < MaxMirrorOps
    /\ RecordPanelOp("loadHtmlFile")
    /\ SetCanvas(loadHtmlFile(Canvas, file))
    /\ UNCHANGED <<canvasRest, mobileView>>

\* a click on #canvas-vnc-connect
ConnectVnc ==
    /\ nMirrorOps < MaxMirrorOps
    /\ RecordPanelOp("connectVnc")
    /\ SetCanvas(connectVnc(Canvas))
    /\ UNCHANGED <<canvasRest, mobileView>>

\* a setTimeout callback of canvas.js runs, no earlier than it is due and
\* after every callback that is due before it or was set before it for the
\* same time
CanvasTimer(t) ==
    /\ t \in canvasTimers
    /\ t.due <= now
    /\ \A u \in canvasTimers : u.due > t.due \/ (u.due = t.due /\ u.n >= t.n)
    /\ RecordCallback("canvas:" \o t.kind)
    /\ SetCanvas(timerCallback([Canvas EXCEPT !.timers = @ \ {t}], t))
    /\ UNCHANGED <<canvasRest, mirrorVars>>

\* the request an async function awaits is settled
CanvasResume(task, outcome) ==
    /\ task \in canvasTasks
    /\ RecordCallback("canvas:resume")
    /\ SetCanvas(resume([Canvas EXCEPT !.tasks = @ \ {task}], task, outcome))
    /\ UNCHANGED <<canvasRest, mirrorVars>>

\* the iframe fires load
IframeLoad ==
    /\ canvasNav
    /\ RecordCallback("canvas:onload")
    /\ SetCanvas(IF canvasOnload
                 THEN setCanvasStatus([Canvas EXCEPT !.nav = FALSE], "connected")
                 ELSE [Canvas EXCEPT !.nav = FALSE])
    /\ UNCHANGED <<canvasRest, mirrorVars>>

\* the iframe fires error
IframeError ==
    /\ canvasNav
    /\ canvasOnerror
    /\ RecordCallback("canvas:onerror")
    /\ SetCanvas(setCanvasStatus([Canvas EXCEPT !.nav = FALSE], "error"))
    /\ UNCHANGED <<canvasRest, mirrorVars>>

\* time passes; a callback that is due runs before the clock moves on
CanvasTick(ms) ==
    /\ \A t \in canvasTimers : t.due > now
    /\ now + ms <= MaxCanvasTime
    /\ now' = now + ms
    /\ UNCHANGED <<sockets, timers, chatStatus, outVars, opVars, recvVars, chatVars,
                   consoleVars, ledgerVars, panelVars, ghostVars, previewVars>>

\* -------------------------------------------------------- websocket.js
\* An inbound frame: valid = FALSE is a frame whose data is not JSON.
Frame(type) ==
    [valid |-> TRUE, type |-> type, tool |-> "none", content |-> Undefined,
     input |-> Undefined, output |-> Undefined, message |-> Undefined,
     url |-> Undefined, session |-> Undefined, port |-> 0, path |-> Undefined]

BadJson == [Frame("none") EXCEPT !.valid = FALSE]

Tools == {"x", "y"}

TokenFrame(c) == [Frame("token") EXCEPT !.content = c]
ToolStartFrame(tl, in) == [Frame("tool_start") EXCEPT !.tool = tl, !.input = in]
ToolEndFrame(tl, out) == [Frame("tool_end") EXCEPT !.tool = tl, !.output = out]
ErrorFrame(m) == [Frame("error") EXCEPT !.message = m]
BrowserStartFrame(tl, u) == [Frame("browser_start") EXCEPT !.tool = tl, !.url = u]
BrowserResultFrame(tl, c) ==
    [Frame("browser_result") EXCEPT !.tool = tl, !.content = c]
\* session is the id of data.session, Undefined for a frame without session
SessionCreatedFrame(id) == [Frame("session_created") EXCEPT !.session = id]

ServerStartedFrame(port) == [Frame("server_started") EXCEPT !.port = port]
CanvasUrlFrame(u) == [Frame("canvas_url") EXCEPT !.url = u]
HtmlCreatedFrame(path) == [Frame("html_created") EXCEPT !.path = path]
GuiStartedFrame == Frame("gui_started")

\* the case labels of the switch
HandledKinds ==
    {"session_created", "stream_start", "token", "tool_start", "tool_end",
     "todo_update", "memory_update", "browser_start", "browser_result",
     "stream_end", "error", "stopped", "system", "status", "thinking_start",
     "thinking_token", "thinking_end", "docker_command", "docker_output",
     "server_started", "canvas_url", "html_created", "gui_started",
     "reminder_triggered"}

\* what setPreviewContent writes
previewCore == <<previewState, hidden, frameSrc, imageSrc, vncFrameSrc, urlBar,
                 previewStatus, openApps, windowControls>>

\* what no case of the switch writes
previewRest == <<isFullscreen, nPreviewOps, lastApp, viewBeforeLast,
                 viewBeforePrev>>

\* case 'stream_start'
HandleStreamStart ==
    /\ isStreaming' = TRUE
    /\ updateStreamingUI(TRUE)
    /\ createAIMessageElement
    /\ lastExc' = "none"
    /\ UNCHANGED <<consoleVars, ledgerVars, panelVars, previewVars>>

\* case 'token'
HandleToken(data) ==
    /\ appendToken(data.content)
    /\ UNCHANGED <<isStreaming, streamingUI, chatStatus, nextId,
                   consoleVars, ledgerVars, panelVars, previewVars>>

\* case 'tool_start'
HandleToolStart(data) ==
    /\ addToolActivity(data.tool, data.input, "start")
    /\ lastExc' = addToolActivityExc(data.input)
    /\ IF addToolActivityThrows(data.input)
       THEN UNCHANGED <<ledgerVars, thoughtsOutput, terminalStatus>>
       ELSE /\ addToolStart(data.tool, data.input)
            /\ appendAgentLog
            /\ setTerminalStatus(data.tool, TRUE)
    /\ UNCHANGED <<isStreaming, streamingUI, chatStatus, hasReceivedContent,
                   currentAIMessage, currentAIContent, panelVars, previewVars>>

\* case 'tool_end'; the tools of Tools are neither todo nor reminder tools
HandleToolEnd(data) ==
    /\ addToolActivity(data.tool, data.output, "end")
    /\ lastExc' = addToolActivityExc(data.output)
    /\ IF addToolActivityThrows(data.output)
       THEN UNCHANGED ledgerVars
       ELSE addToolEnd(data.tool, data.output)
    /\ UNCHANGED <<isStreaming, streamingUI, chatStatus, hasReceivedContent,
                   currentAIMessage, currentAIContent, thoughtsOutput,
                   terminalStatus, panelVars, previewVars>>

\* case 'stream_end'; loadSessions() refreshes the session list over HTTP
HandleStreamEnd ==
    /\ isStreaming' = FALSE
    /\ updateStreamingUI(FALSE)
    /\ finalizeAIMessage
    /\ lastExc' = "none"
    /\ UNCHANGED <<nextId, consoleVars, ledgerVars, panelVars, previewVars>>

\* case 'error'
HandleError(data) ==
    /\ showError(data.message)
    /\ isStreaming' = FALSE
    /\ updateStreamingUI(FALSE)
    /\ lastExc' = "none"
    /\ UNCHANGED <<hasReceivedContent, currentAIMessage, currentAIContent,
                   consoleVars, ledgerVars, panelVars, previewVars>>

\* mutation: stopped ends the streaming state but keeps the buffer live
HandleStopped_KeepsBuffer ==
    /\ isStreaming' = FALSE
    /\ updateStreamingUI(FALSE)
    /\ lastExc' = "none"
    /\ UNCHANGED <<hasReceivedContent, currentAIMessage, currentAIContent,
                   messages, nextId, consoleVars, ledgerVars, panelVars,
                   previewVars>>

\* case 'stopped'
HandleStopped ==
    /\ isStreaming' = FALSE
    /\ updateStreamingUI(FALSE)
    /\ finalizeAIMessage
    /\ lastExc' = "none"
    /\ UNCHANGED <<nextId, consoleVars, ledgerVars, panelVars, previewVars>>

\* case 'session_created'; data.session.id of a frame without session is a
\* TypeError; loadSessions() refreshes the session list over HTTP
HandleSessionCreated(data) ==
    /\ IF IsString(data.session)
       THEN /\ currentSessionId' = data.session
            /\ lastExc' = "none"
       ELSE /\ lastExc' = "TypeError"
            /\ UNCHANGED currentSessionId
    /\ UNCHANGED <<chatVars, chatStatus, consoleVars, ledgerVars, browserVars,
                   sessionLoads, canvasVars, agentVars, mirrorVars, previewVars>>

\* mutation: the page is recorded but the preview is not switched
HandleBrowserStart_NoPreview(data) ==
    /\ addBrowserStart(data.tool, data.url)
    /\ lastExc' = "none"
    /\ UNCHANGED <<chatVars, chatStatus, consoleVars, ledgerVars, sessionVars,
                   canvasVars, agentVars, mirrorVars, previewVars>>

\* case 'browser_start'
HandleBrowserStart(data) ==
    /\ addBrowserStart(data.tool, data.url)
    /\ IF /\ Truthy(data.url) /\ data.url # Str(<<"undefined">>)
          /\ Trim(data.url.v) # <<>>
       THEN setPreviewContent("web", data.url, 0)
       ELSE UNCHANGED previewCore
    /\ lastExc' = "none"
    /\ UNCHANGED <<chatVars, chatStatus, consoleVars, ledgerVars, sessionVars,
                   canvasVars, agentVars, mirrorVars, previewRest>>

\* case 'browser_result'
HandleBrowserResult(data) ==
    /\ addBrowserResult(data.tool, data.content)
    /\ lastExc' = "none"
    /\ UNCHANGED <<chatVars, chatStatus, consoleVars, ledgerVars, sessionVars,
                   canvasVars, agentVars, mirrorVars, previewVars>>

\* portMap of case 'server_started': sandbox ports to host ports
MapPort(port) ==
    IF port \in {3000, 5000, 8000, 8080, 8501, 8007, 8008, 8009, 8010}
    THEN port + 10000 ELSE port

\* case 'server_started'
HandleServerStarted(data) ==
    /\ SetCanvas(handleServerStart(Canvas, data.port))
    /\ setPreviewContent("web",
            Str(<<"http://localhost:" \o ToString(MapPort(data.port))>>), 0)
    /\ lastExc' = "none"
    /\ UNCHANGED <<chatVars, chatStatus, consoleVars, ledgerVars, browserVars,
                   sessionVars, agentVars, mirrorVars, previewRest>>

\* case 'canvas_url': handleCanvasMessage(data) calls loadWebUrl(data.url)
HandleCanvasUrl(data) ==
    /\ SetCanvas(loadWebUrl(Canvas, IF Truthy(data.url) THEN data.url.v ELSE <<>>))
    /\ lastExc' = "none"
    /\ UNCHANGED <<chatVars, chatStatus, consoleVars, ledgerVars, browserVars,
                   sessionVars, agentVars, mirrorVars, previewVars>>

\* case 'html_created'
HandleHtmlCreated(data) ==
    /\ SetCanvas(handleHtmlCreated(Canvas, data.path.v))
    /\ lastExc' = "none"
    /\ UNCHANGED <<chatVars, chatStatus, consoleVars, ledgerVars, browserVars,
                   sessionVars, agentVars, mirrorVars, previewVars>>

\* case 'gui_started'
HandleGuiStarted ==
    /\ SetCanvas(handleGuiAppStart(Canvas))
    /\ setPreviewContent("vnc", Str(<<>>), 0)
    /\ lastExc' = "none"
    /\ UNCHANGED <<chatVars, chatStatus, consoleVars, ledgerVars, browserVars,
                   sessionVars, agentVars, mirrorVars, previewRest>>

\* mutation: a frame without a case ends the session
HandleNothing_ClearsSession(exc) ==
    /\ lastExc' = exc
    /\ currentSessionId' = Null
    /\ UNCHANGED <<chatVars, chatStatus, consoleVars, ledgerVars, browserVars,
                   sessionLoads, canvasVars, agentVars, mirrorVars, previewVars>>

\* a frame that is not JSON makes JSON.parse throw; a type without a case
\* falls through the switch
HandleNothing(exc) ==
    /\ lastExc' = exc
    /\ UNCHANGED <<chatVars, chatStatus, consoleVars, ledgerVars, panelVars, previewVars>>

\* handleWebSocketMessage(event)
handleWebSocketMessage(data) ==
    IF ~data.valid THEN HandleNothing("SyntaxError")
    ELSE CASE data.type = "stream_start" -> HandleStreamStart
           [] data.type = "token" -> HandleToken(data)
           [] data.type = "tool_start" -> HandleToolStart(data)
           [] data.type = "tool_end" -> HandleToolEnd(data)
           [] data.type = "stream_end" -> HandleStreamEnd
           [] data.type = "error" -> HandleError(data)
           [] data.type = "stopped" -> HandleStopped
           [] data.type = "session_created" -> HandleSessionCreated(data)
           [] data.type = "browser_start" -> HandleBrowserStart(data)
           [] data.type = "browser_result" -> HandleBrowserResult(data)
           [] data.type = "server_started" -> HandleServerStarted(data)
           [] data.type = "canvas_url" -> HandleCanvasUrl(data)
           [] data.type = "html_created" -> HandleHtmlCreated(data)
           [] data.type = "gui_started" -> HandleGuiStarted
           [] OTHER -> HandleNothing("none")

OpName(data) == IF data.valid THEN data.type ELSE "badjson"

\* state.ws.onmessage of socket e; the handler stays attached to the socket
\* object whether or not it is still state.ws
OnMessage(e, data) ==
    /\ e \in 1..Epoch
    /\ sockets[e].state = "open"
    /\ handleWebSocketMessage(data)
    /\ nDispatched' = nDispatched + 1
    /\ lastRecvEpoch' = e
    /\ lastOp' = OpName(data)
    /\ prevOp' = lastOp
    /\ streamTokens' =
        IF OpName(data) = "stream_start" THEN <<>>
        ELSE IF OpName(data) = "token" THEN Append(streamTokens, data.content)
        ELSE streamTokens
    /\ streamOpen' =
        IF OpName(data) = "stream_start" THEN TRUE
        ELSE IF OpName(data) \in {"stream_end", "stopped"} THEN FALSE
        ELSE streamOpen
    /\ msgsAtStart' =
        IF OpName(data) = "stream_start" THEN messages ELSE msgsAtStart
    /\ streamElem' =
        IF OpName(data) = "stream_start" THEN currentAIMessage' ELSE streamElem
    /\ closedStream' = (OpName(data) = "stream_end" /\ streamOpen)
    /\ lastData' = data
    /\ prevData' = lastData
    /\ histBeforeLast' = toolHistory
    /\ histBeforePrev' = histBeforeLast
    /\ afterStopped' =
        IF OpName(data) = "stopped" THEN TRUE
        ELSE IF OpName(data) = "stream_start" THEN FALSE
        ELSE afterStopped
    /\ inFlight' = (inFlight /\ OpName(data) \notin {"stream_end", "stopped", "error"})
    /\ UNCHANGED <<sockets, timers, now, sent, inputValue, nSends>>

\* ------------------------------------------------- chat.js, outbound side
\* WebSocket.send(): throws InvalidStateError while CONNECTING, transmits
\* while OPEN, discards the data while CLOSING or CLOSED; state.ws.send on a
\* null state.ws is a TypeError
SendExc ==
    IF ReadyState = "none" THEN "TypeError"
    ELSE IF ReadyState = "connecting" THEN "InvalidStateError"
    ELSE "none"

Transmit(envelope) ==
    sent' = IF ReadyState = "open"
            THEN Append(sent, [envelope EXCEPT !.epoch = Epoch])
            ELSE sent

\* sendMessage() with text typed into #message-input and nAtt attachments
SendMessage(text, nAtt) ==
    LET content == Trim(text)
        proceeds == ~((content = <<>> /\ nAtt = 0) \/ isStreaming)
        shown == IF nAtt > 0 THEN content \o <<"Ekler">> ELSE content
    IN  /\ nSends < MaxSends
        /\ nSends' = nSends + 1
        /\ lastOp' = "sendMessage"
        /\ prevOp' = lastOp
        /\ IF proceeds
           THEN /\ messages' = Append(RemoveElement(messages, 0),
                                      UserElement(nextId, shown))
                /\ nextId' = nextId + 1
                /\ Transmit([type |-> "message", content |-> content, epoch |-> 0])
                /\ lastExc' = SendExc
                /\ inputValue' = IF SendExc = "none" THEN <<>> ELSE text
                /\ inFlight' = (inFlight \/ ReadyState = "open")
           ELSE /\ lastExc' = "none"
                /\ inputValue' = text
                /\ UNCHANGED <<messages, nextId, sent, inFlight>>
        /\ UNCHANGED <<connVars, recvVars, isStreaming, hasReceivedContent,
                       currentAIMessage, currentAIContent, streamingUI,
                       consoleVars, ledgerVars, panelVars, ghostVars, previewVars>>

\* mutation: the envelope is sent without looking at readyState
StopGeneration_Unchecked ==
    /\ nSends < MaxSends
    /\ nSends' = nSends + 1
    /\ lastOp' = "stopGeneration"
    /\ prevOp' = lastOp
    /\ lastExc' = SendExc
    /\ Transmit([type |-> "stop", content |-> <<>>, epoch |-> 0])
    /\ UNCHANGED <<connVars, inputValue, inFlight, recvVars, chatVars,
                   consoleVars, ledgerVars, panelVars, ghostVars, previewVars>>

\* stopGeneration()
StopGeneration ==
    /\ nSends < MaxSends
    /\ nSends' = nSends + 1
    /\ lastOp' = "stopGeneration"
    /\ prevOp' = lastOp
    /\ lastExc' = "none"
    /\ IF ReadyState = "open"
       THEN Transmit([type |-> "stop", content |-> <<>>, epoch |-> 0])
       ELSE UNCHANGED sent
    /\ UNCHANGED <<connVars, inputValue, inFlight, recvVars, chatVars,
                   consoleVars, ledgerVars, panelVars, ghostVars, previewVars>>

\* ------------------------------------------------------------ agents.js
Agents == {"supervisor", "coder"}

AgentName(agentId) == IF agentId = "coder" THEN "Coder" ELSE "Supervisor"

\* setActiveAgent(agentId)
setActiveAgent(agentId) ==
    IF agentId \in Agents
    THEN /\ activeAgent' = agentId
         /\ autoRouting' = FALSE
    ELSE UNCHANGED <<activeAgent, autoRouting>>

\* a click on an option of the desktop agent dropdown
SetActiveAgent(agentId) ==
    /\ nMirrorOps < MaxMirrorOps
    /\ RecordPanelOp("setActiveAgent")
    /\ setActiveAgent(agentId)
    /\ UNCHANGED <<connVars, outVars, recvVars, chatVars, consoleVars,
                   ledgerVars, browserVars, sessionVars, canvasVars,
                   settingsHidden, mobileToolsList, mobileCanvasUrl,
                   mobileCanvasIframe, mobileCanvasStatus, mobileAgent,
                   ghostVars, previewVars>>

\* --------------------------------------------------------- mobile UI
\* #tools-list as renderToolsPanel leaves it: one block per ledger entry
renderToolsPanel ==
    [i \in 1..Len(toolHistory) |->
        [tool |-> toolHistory[i].tool, status |-> toolHistory[i].status,
         input |-> toolHistory[i].input, output |-> toolHistory[i].output,
         duration |-> toolHistory[i].duration]]

\* what the desktop surface owns
primaryVars == <<connVars, outVars, recvVars, chatVars, consoleVars, ledgerVars,
                 browserVars, sessionVars, canvasVars, agentVars, ghostVars,
                 previewVars>>

\* syncToolsList()
MobileSyncToolsList ==
    /\ nMirrorOps < MaxMirrorOps
    /\ RecordPanelOp("mobile:syncToolsList")
    /\ mobileToolsList' = renderToolsPanel
    /\ UNCHANGED <<primaryVars, mobileCanvasUrl, mobileCanvasIframe,
                   mobileCanvasStatus, mobileAgent>>

\* syncCanvasStatus()
MobileSyncCanvasStatus ==
    /\ nMirrorOps < MaxMirrorOps
    /\ RecordPanelOp("mobile:syncCanvasStatus")
    /\ mobileCanvasStatus' = canvasStatus
    /\ mobileCanvasIframe' =
            IF canvasIframeSrc # AboutBlank /\ mobileCanvasIframe # canvasIframeSrc
            THEN canvasIframeSrc ELSE mobileCanvasIframe
    /\ UNCHANGED <<primaryVars, mobileToolsList, mobileCanvasUrl, mobileAgent>>

\* url.startsWith('http')
StartsWithHttp(t) == t # <<>> /\ t[1] \in {"http://", "https://", "httpbin.org"}

\* loadCanvasUrl() after text was typed into #mobile-canvas-url
MobileLoadCanvasUrl(text) ==
    LET trimmed == Trim(text)
        url == IF StartsWithHttp(trimmed) THEN trimmed
               ELSE <<"http://">> \o trimmed
    IN  /\ nMirrorOps < MaxMirrorOps
        /\ RecordPanelOp("mobile:loadCanvasUrl")
        /\ mobileCanvasUrl' = text
        /\ mobileCanvasIframe' = Resolve(url)
        /\ canvasUrlInput' = text
        /\ canvasIframeSrc' = Resolve(url)
        /\ canvasNav' = TRUE
        /\ UNCHANGED <<canvasRest, canvasCurrentUrl, canvasStatus, canvasTimers,
                       canvasMode, canvasIframeHidden, canvasOnload,
                       canvasOnerror, canvasTasks, canvasSeq, canvasLoadAt,
                       mobileToolsList, mobileCanvasStatus, mobileAgent>>

\* refreshCanvas(): iframe.src = iframe.src reloads the page it shows
MobileRefreshCanvas ==
    /\ nMirrorOps < MaxMirrorOps
    /\ RecordPanelOp("mobile:refreshCanvas")
    /\ UNCHANGED <<primaryVars, mobileToolsList, mobileCanvasUrl,
                   mobileCanvasIframe, mobileCanvasStatus, mobileAgent>>

\* selectAgent(agentId): the caption, then window.AtomAgent.setActiveAgent
MobileSelectAgent(agentId) ==
    /\ nMirrorOps < MaxMirrorOps
    /\ RecordPanelOp("mobile:selectAgent")
    /\ mobileAgent' = AgentName(agentId)
    /\ setActiveAgent(agentId)
    /\ UNCHANGED <<connVars, outVars, recvVars, chatVars, consoleVars,
                   ledgerVars, browserVars, sessionVars, canvasVars,
                   settingsHidden, ghostVars, previewVars, mobileToolsList,
                   mobileCanvasUrl, mobileCanvasIframe, mobileCanvasStatus>>

\* updateAgentSelector(): the caption of the desktop indicator is copied
MobileUpdateAgentSelector ==
    /\ nMirrorOps < MaxMirrorOps
    /\ RecordPanelOp("mobile:updateAgentSelector")
    /\ mobileAgent' = AgentName(activeAgent)
    /\ UNCHANGED <<primaryVars, mobileToolsList, mobileCanvasUrl,
                   mobileCanvasIframe, mobileCanvasStatus>>

\* the click handler of #mobile-open-full-settings
MobileOpenFullSettings ==
    /\ nMirrorOps < MaxMirrorOps
    /\ RecordPanelOp("mobile:openFullSettings")
    /\ settingsHidden' = FALSE
    /\ UNCHANGED <<connVars, outVars, recvVars, chatVars, consoleVars,
                   ledgerVars, browserVars, sessionVars, canvasVars,
                   activeAgent, autoRouting, ghostVars, previewVars,
                   mobileToolsList, mobileCanvasUrl, mobileCanvasIframe,
                   mobileCanvasStatus, mobileAgent>>

\* --------------------------------------------------------- specifications
Epochs == 1..MaxEpoch

Texts == {<<>>, <<"hi">>}

ConnFrames == {Frame("stream_start"), TokenFrame(Str(<<"a">>))}

\* the connection manager: socket lifecycle, reconnect timer, delivery
Next ==
    \/ AppInit
    \/ \E e \in Epochs : OnOpen(e)
    \/ \E e \in Epochs, withError \in BOOLEAN : TransportLost(e, withError)
    \/ \E e \in Epochs : OnError(e)
    \/ \E e \in Epochs : OnClose(e)
    \/ \E t \in timers : ReconnectTimer(t)
    \/ Tick
    \/ \E e \in Epochs, data \in ConnFrames :
            nDispatched < MaxConnFrames /\ OnMessage(e, data)

Spec == Init /\ [][Next]_vars

SendFrames == {Frame("stream_start"), Frame("stream_end")}

\* the outbound side: sendMessage and stopGeneration in every ready state
NextSend ==
    \/ AppInit
    \/ OnOpen(1)
    \/ \E withError \in BOOLEAN : TransportLost(1, withError)
    \/ OnError(1)
    \/ OnClose(1)
    \/ \E data \in SendFrames :
            nDispatched < MaxConnFrames /\ OnMessage(1, data)
    \/ \E text \in Texts, nAtt \in {0, 1} : SendMessage(text, nAtt)
    \/ StopGeneration

SpecSend == Init /\ [][NextSend]_vars

TokenPayloads == {Str(<<"a">>), Str(<<" ">>), Str(<<>>), Undefined}

ChatFrames ==
    {Frame("stream_start"), Frame("stream_end"), Frame("stopped"),
     ErrorFrame(Str(<<"e">>)), Frame("unknown"), BadJson,
     ToolStartFrame("x", Str(<<"q">>)), ToolStartFrame("x", Null)}
    \cup {TokenFrame(c) : c \in TokenPayloads}

\* the dispatcher and the stream accumulator on one open connection
NextChat ==
    \/ AppInit
    \/ OnOpen(1)
    \/ \E data \in ChatFrames : nDispatched < MaxFrames /\ OnMessage(1, data)

SpecChat == Init /\ [][NextChat]_vars

LedgerFrames ==
    {Frame("stream_start")}
    \cup {ToolStartFrame(tl, in) : tl \in Tools, in \in {Str(<<"q">>), Null}}
    \cup {ToolEndFrame(tl, out) : tl \in Tools, out \in {Str(<<"r">>), Str(<<>>)}}

LedgerTick == now + TickMs <= MaxLedgerTime /\ Tick

\* the dispatcher and the tool ledger on one open connection
NextLedger ==
    \/ AppInit
    \/ OnOpen(1)
    \/ LedgerTick
    \/ \E data \in LedgerFrames :
            nDispatched < MaxLedgerFrames /\ OnMessage(1, data)

SpecLedger == Init /\ [][NextLedger]_vars

Urls == {Str(<<"http://x">>), Str(<<"http://y">>), Str(<<>>)}

Ports == {0, 6081}

\* the preview window manager driven through its public operations
NextPreview ==
    \/ \E url \in Urls : SetPreviewContent("web", url, 0)
    \/ \E url \in Urls : SetPreviewContent("image", url, 0)
    \/ \E port \in Ports : SetPreviewContent("vnc", Str(<<>>), port)
    \/ SetPreviewContent("empty", Undefined, 0)
    \/ WindowClose
    \/ WindowMinimize
    \/ WindowMaximize
    \/ \E appId \in AppIds : RestoreApp(appId)

SpecPreview == Init /\ [][NextPreview]_vars

CapFrames == {ToolStartFrame("x", Str(<<"q">>))}

\* the tool ledger filled past its cap
NextCap ==
    \/ AppInit
    \/ OnOpen(1)
    \/ LedgerTick
    \/ \E data \in CapFrames :
            nDispatched < MaxCapFrames /\ OnMessage(1, data)

SpecCap == Init /\ [][NextCap]_vars

BrowseUrls ==
    {Str(<<"http://x">>), Str(<<"http://y">>), Str(<<" ">>), Str(<<>>), Undefined}

PageContents == {Str(<<"<title>", "T", "</title>", "body">>), Str(<<"body">>), Null}

BrowseFrames ==
    {ToolStartFrame("web_search", Str(<<"q">>)), Frame("stream_start"),
     Frame("unknown"), SessionCreatedFrame(Str(<<"s1">>)),
     SessionCreatedFrame(Undefined)}
    \cup {BrowserStartFrame("web_search", u) : u \in BrowseUrls}
    \cup {BrowserResultFrame("web_search", c) : c \in PageContents}

\* the dispatcher with the browser panel, the session id and the preview
NextBrowse ==
    \/ AppInit
    \/ OnOpen(1)
    \/ \E data \in BrowseFrames :
            nDispatched < MaxBrowseFrames /\ OnMessage(1, data)

SpecBrowse == Init /\ [][NextBrowse]_vars

PageTools == {"web_search", "browse_url"}

PageFrames ==
    {BrowserStartFrame(tl, u) : tl \in PageTools, u \in {Str(<<"http://x">>), Undefined}}
    \cup {BrowserResultFrame(tl, c) : tl \in PageTools, c \in PageContents}

\* browser_start and browser_result frames of two tools, in any order
NextPages ==
    \/ AppInit
    \/ OnOpen(1)
    \/ \E data \in PageFrames :
            nDispatched < MaxPageFrames /\ OnMessage(1, data)

SpecPages == Init /\ [][NextPages]_vars

CanvasTexts == {<<"localhost:3000">>, <<"http://", "x", "/">>, <<" ">>}

MirrorFrames == {ToolStartFrame("x", Str(<<"q">>)), ToolEndFrame("x", Str(<<"r">>))}

\* the desktop surface and the mobile UI that mirrors it
NextMirror ==
    \/ AppInit
    \/ OnOpen(1)
    \/ \E data \in MirrorFrames :
            nDispatched < MaxMirrorFrames /\ OnMessage(1, data)
    \/ \E text \in CanvasTexts : LoadWebUrl(text)
    \/ \E agentId \in Agents : SetActiveAgent(agentId)
    \/ MobileSyncToolsList
    \/ MobileSyncCanvasStatus
    \/ \E text \in CanvasTexts : MobileLoadCanvasUrl(text)
    \/ MobileRefreshCanvas
    \/ \E agentId \in Agents : MobileSelectAgent(agentId)
    \/ MobileUpdateAgentSelector
    \/ MobileOpenFullSettings

SpecMirror == Init /\ [][NextMirror]_vars

StopFrames ==
    {Frame("stream_start"), Frame("stopped"), TokenFrame(Str(<<"a">>)),
     TokenFrame(Str(<<" ">>))}

\* a response that is cancelled while its tokens are still arriving
NextStop ==
    \/ AppInit
    \/ OnOpen(1)
    \/ SendMessage(<<"hi">>, 0)
    \/ StopGeneration
    \/ \E data \in StopFrames :
            nDispatched < MaxStopFrames /\ OnMessage(1, data)

SpecStop == Init /\ [][NextStop]_vars

HtmlFiles == {<<"index.html">>}

\* the canvas driven from its controls, with its callbacks and the clock
NextCanvas ==
    \/ \E text \in CanvasTexts : nMirrorOps < MaxCanvasOps /\ LoadWebUrl(text)
    \/ \E mode \in CanvasModes : nMirrorOps < MaxCanvasOps /\ SwitchMode(mode)
    \/ \E file \in HtmlFiles : nMirrorOps < MaxCanvasOps /\ LoadHtmlFile(file)
    \/ nMirrorOps < MaxCanvasOps /\ ConnectVnc
    \/ \E t \in canvasTimers : CanvasTimer(t)
    \/ \E task \in canvasTasks, outcome \in Outcomes : CanvasResume(task, outcome)
    \/ IframeLoad
    \/ IframeError
    \/ CanvasTick(CanvasStepMs)

SpecCanvas == Init /\ [][NextCanvas]_vars

SwitchFrames ==
    {ServerStartedFrame(3000), HtmlCreatedFrame(Str(<<"index.html">>)),
     GuiStartedFrame, CanvasUrlFrame(Str(<<"http://", "x", "/">>))}

\* the events that switch the canvas, with the delays of their handlers
NextSwitch ==
    \/ AppInit
    \/ OnOpen(1)
    \/ \E data \in SwitchFrames :
            nDispatched < MaxSwitchFrames /\ OnMessage(1, data)
    \/ \E t \in canvasTimers : CanvasTimer(t)
    \/ \E task \in canvasTasks, outcome \in Outcomes : CanvasResume(task, outcome)
    \/ IframeLoad
    \/ now < MaxSwitchTime /\ CanvasTick(TickMs)

SpecSwitch == Init /\ [][NextSwitch]_vars

SessionIds == {"s1", "s2"}

\* the messages the server stores for a session
Stored(sessionId) ==
    IF sessionId = "s1"
    THEN <<[role |-> "human", content |-> <<"q1">>],
           [role |-> "ai", content |-> <<"a1">>]>>
    ELSE <<[role |-> "human", content |-> <<"q2">>],
           [role |-> "system", content |-> <<"n2">>]>>

\* the session list: sessions are opened while their fetches are under way
NextSession ==
    \/ \E sessionId \in SessionIds : LoadSession(sessionId)
    \/ \E task \in sessionTasks, ok \in BOOLEAN :
            LoadSessionDone(task, ok, Stored(task.id))
    \/ NewChat

SpecSession == Init /\ [][NextSession]_vars

\* ----------------------------------------------------------------- claims
MessageOps == {"stream_start", "token", "tool_start", "tool_end", "stream_end",
               "error", "stopped", "unknown", "badjson"}

\* C1: once a socket of a higher epoch is open, no message event of a socket
\* of an earlier epoch is dispatched.
C1_OldEpochNotDispatched ==
    [][nDispatched' > nDispatched =>
        ~\E k \in 1..Len(sockets) :
            k > lastRecvEpoch' /\ sockets[k].state = "open"]_vars

C1_Witness ==
    /\ Epoch >= 2
    /\ sockets[1].state = "closed"
    /\ sockets[Epoch].state = "open"
    /\ lastRecvEpoch = Epoch
    /\ nDispatched = MaxConnFrames

\* C2: after an error envelope is dispatched no StreamBuffer is live.
C2_ErrorFinalizesStream ==
    lastOp = "error" => currentAIMessage = 0

\* an AI element that is still pending, or that has not been given its final
\* highlighted rendering
Unfinalized(m) == m.cls = "ai" /\ (m.pending \/ ~m.hl)

UnfinalizedElements == {i \in 1..Len(messages) : Unfinalized(messages[i])}

\* C4: the message list never holds more than one unfinalized AI response.
C4_AtMostOneLiveBuffer ==
    Cardinality(UnfinalizedElements) <= 1

RECURSIVE Concat(_)
Concat(tokens) ==
    IF tokens = <<>> THEN <<>>
    ELSE Head(tokens).v \o Concat(Tail(tokens))

AllStrings(tokens) == \A i \in 1..Len(tokens) : IsString(tokens[i])

HasVisibleToken(tokens) ==
    \E i \in 1..Len(tokens) : Trim(tokens[i].v) # <<>>

\* what the element of the last stream shows: nothing when it was removed
StreamRendering ==
    IF InDocument(messages, streamElem)
    THEN messages[IndexOf(messages, streamElem)].src
    ELSE <<>>

\* C5 as stated: when a stream_end closes a stream, the message shows the
\* concatenation of the token payloads received since its stream_start.
C5_RenderedIsConcatenation ==
    (closedStream /\ AllStrings(streamTokens)) =>
        StreamRendering = Concat(streamTokens)

\* C5 amended: that holds when some token has a non-whitespace character;
\* when none has, the message element is removed and nothing is rendered.
C5_RenderedIsConcatenationOfVisible ==
    (closedStream /\ AllStrings(streamTokens)) =>
        IF HasVisibleToken(streamTokens)
        THEN /\ InDocument(messages, streamElem)
             /\ LET m == messages[IndexOf(messages, streamElem)]
                IN  m.html = "md" /\ ~m.pending /\ m.hl
                    /\ m.src = Concat(streamTokens)
        ELSE ~InDocument(messages, streamElem)

C5_Witness ==
    /\ closedStream
    /\ Len(streamTokens) = 2
    /\ streamTokens[1] # streamTokens[2]
    /\ AllStrings(streamTokens)
    /\ HasVisibleToken(streamTokens)

\* C6: a stream_start immediately followed by stream_end leaves the message
\* list as it was before the stream_start, with no buffer live.
C6_EmptyStreamLeavesNoMessage ==
    (lastOp = "stream_end" /\ prevOp = "stream_start") =>
        (messages = msgsAtStart /\ currentAIMessage = 0)

C6_Witness ==
    /\ lastOp = "stream_end"
    /\ prevOp = "stream_start"
    /\ nDispatched = 4
    /\ prevData.type = "stream_start"
    /\ messages = <<WelcomeElement>>

\* C7: a sendMessage call made while the transport is not open transmits
\* nothing, changes nothing and raises no exception.
C7_SendWhileNotOpenIsNoOp ==
    [][(nSends' > nSends /\ lastOp' = "sendMessage" /\ ReadyState # "open") =>
        (sent' = sent /\ messages' = messages /\ lastExc' = "none")]_vars

\* C8: no inbound frame makes the dispatcher raise an exception.
C8_DispatcherNeverThrows ==
    lastOp \in MessageOps => lastExc = "none"

\* C9: the loss of socket e schedules exactly one reconnect, due 3 s after
\* its close; a socket that is not closed has scheduled none.
C9_OneReconnectPerLoss ==
    \A e \in 1..Len(sockets) :
        LET pending == {t \in timers : t.src = e}
            made == {k \in 1..Len(sockets) : sockets[k].by = e}
        IN  /\ sockets[e].state = "closed" =>
                Cardinality(pending) + Cardinality(made) = 1
            /\ sockets[e].state # "closed" => (pending = {} /\ made = {})
            /\ \A t \in pending : t.due = sockets[e].closedAt + ReconnectDelay
            /\ \A k \in made :
                sockets[k].createdAt >= sockets[e].closedAt + ReconnectDelay

C9_Witness ==
    /\ Epoch = 3
    /\ sockets[1].state = "closed" /\ sockets[1].errors = 1
    /\ sockets[2].state = "closed" /\ sockets[2].errors = 0
    /\ sockets[2].by = 1 /\ sockets[3].by = 2
    /\ timers = {}

\* C10: with no running entry for tool x, tool_start(x, in) followed by
\* tool_end(x, out) adds exactly one entry, completed, with output out and a
\* duration >= 0, for every in (string or null).
C10_StartEndAddsOneCompleted ==
    (/\ prevOp = "tool_start" /\ lastOp = "tool_end"
     /\ prevData.type = "tool_start" /\ lastData.type = "tool_end"
     /\ prevData.tool = lastData.tool
     /\ \A i \in 1..Len(histBeforePrev) :
            ~(histBeforePrev[i].tool = prevData.tool
              /\ histBeforePrev[i].status = "running"))
    => (/\ toolHistory # <<>>
        /\ Tail(toolHistory) = histBeforePrev
        /\ toolHistory[1].tool = lastData.tool
        /\ toolHistory[1].input = prevData.input
        /\ toolHistory[1].status = "completed"
        /\ toolHistory[1].output = lastData.output
        /\ toolHistory[1].duration >= 0)

RegionOf(kind) == IF kind = "web" THEN "frame" ELSE kind

\* C3: when content of a kind is shown, minimize followed by restoreApp of
\* that kind's taskbar app leaves the mode and the viewport as they were
\* before minimize.
C3_MinimizeRestoreRoundTrip ==
    (/\ lastOp = "restore" /\ prevOp = "minimize"
     /\ viewBeforePrev.mode \in Kinds
     /\ lastApp = AppId(viewBeforePrev.mode)
     /\ viewBeforePrev.visible = {RegionOf(viewBeforePrev.mode)})
    => View = viewBeforePrev

\* a message event of the given type whose handler ran to its end
Dispatched(type) ==
    /\ nDispatched' > nDispatched
    /\ lastData'.valid
    /\ lastData'.type = type
    /\ lastExc' = "none"

\* C11: after two tool_start events for tool x, each of which added its entry
\* and with no tool_end between them, a tool_end(x, out) completes exactly one
\* of the two entries, with output out, and leaves the other one running.
C11_OverlappingStartsOneCloses ==
    [][(/\ Dispatched("tool_end")
        /\ lastOp = "tool_start" /\ prevOp = "tool_start"
        /\ lastData.tool = lastData'.tool /\ prevData.tool = lastData'.tool
        /\ Len(toolHistory) = Len(histBeforePrev) + 2
        /\ Len(histBeforeLast) = Len(histBeforePrev) + 1)
       => LET done == {i \in 1..2 :
                        /\ toolHistory'[i].status = "completed"
                        /\ toolHistory'[i].output = lastData'.output}
          IN  /\ Cardinality(done) = 1
              /\ \A i \in (1..2) \ done :
                    /\ toolHistory'[i] = toolHistory[i]
                    /\ toolHistory'[i].status = "running"]_vars

C11_Witness ==
    /\ lastOp = "tool_end" /\ prevOp = "tool_start"
    /\ lastExc = "none"
    /\ Len(toolHistory) = 2
    /\ toolHistory[1].tool = lastData.tool
    /\ toolHistory[2].tool = lastData.tool
    /\ toolHistory[1].status = "completed"
    /\ toolHistory[2].status = "running"
    /\ toolHistory[1].startTime > toolHistory[2].startTime

\* the entry of h at index i was started no earlier than the one at index j
StartedNoEarlier(h, i, j) ==
    \/ h[i].startTime > h[j].startTime
    \/ (h[i].startTime = h[j].startTime /\ i <= j)

\* C12: a tool_end(x, out) that reaches the ledger completes the running entry
\* of tool x that was started most recently and changes no other entry; with
\* no running entry of x the ledger entries are unchanged.
C12_EndCompletesMostRecentRunning ==
    [][Dispatched("tool_end")
       => LET x == lastData'.tool
              R == {i \in 1..Len(toolHistory) :
                      toolHistory[i].tool = x /\ toolHistory[i].status = "running"}
          IN  IF R = {} THEN toolHistory' = toolHistory
              ELSE \E i \in R :
                    /\ \A j \in R : StartedNoEarlier(toolHistory, i, j)
                    /\ Len(toolHistory') = Len(toolHistory)
                    /\ toolHistory'[i].status = "completed"
                    /\ toolHistory'[i].output = lastData'.output
                    /\ toolHistory'[i].tool = x
                    /\ toolHistory'[i].input = toolHistory[i].input
                    /\ toolHistory'[i].startTime = toolHistory[i].startTime
                    /\ toolHistory'[i].duration = now - toolHistory[i].startTime
                    /\ \A j \in 1..Len(toolHistory) :
                          j # i => toolHistory'[j] = toolHistory[j]]_vars

C12_Witness ==
    /\ lastOp = "tool_end" /\ lastExc = "none"
    /\ Len(toolHistory) = 3
    /\ toolHistory[1].tool # lastData.tool
    /\ toolHistory[1].status = "running"
    /\ toolHistory[2].tool = lastData.tool
    /\ toolHistory[2].status = "completed"
    /\ toolHistory[2].duration > 0
    /\ toolHistory[3].tool = lastData.tool
    /\ toolHistory[3].status = "running"
    /\ toolHistory[3].startTime < toolHistory[2].startTime

\* C13: setPreviewContent('web', {url}) with a valid url followed by the
\* window action close leaves the mode empty, the placeholder shown and no
\* app_web in the taskbar.
C13_WebThenCloseIsEmpty ==
    (/\ lastOp = "close" /\ prevOp = "setPreviewContent"
     /\ viewBeforeLast.mode = "web"
     /\ ~InvalidUrl(previewState.content))
    => (/\ previewState.mode = "empty"
        /\ Visible = {"placeholder"}
        /\ ~HasApp(openApps, AppId("web")))

C13_Witness ==
    /\ lastOp = "close" /\ prevOp = "setPreviewContent"
    /\ viewBeforeLast.mode = "web"
    /\ viewBeforeLast.visible = {"frame"}
    /\ viewBeforeLast.shown = Str(<<"http://x">>)
    /\ previewState.content = Str(<<"http://x">>)
    /\ HasApp(openApps, AppId("image"))

\* C14: after tool_start{tool: web_search, input: q} and then
\* browser_start{tool: web_search, url} with a url that is not blank, the
\* preview mode is web and its content is that url.
C14_BrowserStartShowsWeb ==
    (/\ lastOp = "browser_start" /\ prevOp = "tool_start"
     /\ prevData = ToolStartFrame("web_search", Str(<<"q">>))
     /\ lastData.tool = "web_search"
     /\ IsString(lastData.url) /\ Trim(lastData.url.v) # <<>>)
    => (/\ previewState.mode = "web"
        /\ previewState.content = lastData.url)

C14_Witness ==
    /\ lastOp = "browser_start" /\ prevOp = "tool_start"
    /\ prevData = ToolStartFrame("web_search", Str(<<"q">>))
    /\ lastData = BrowserStartFrame("web_search", Str(<<"http://x">>))
    /\ previewState.content = Str(<<"http://x">>)
    /\ Shown = Str(<<"http://x">>)
    /\ toolHistory # <<>>
    /\ browserHistory # <<>>

\* C15: a stopGeneration call made while the transport is not open sends no
\* envelope, raises no exception and changes no client state; nothing is
\* queued, so an envelope only ever goes out during a call made while open.
C15_StopWhileNotOpenIsNoOp ==
    [][/\ (nSends' > nSends /\ lastOp' = "stopGeneration" /\ ReadyState # "open")
            => (/\ lastExc' = "none"
                /\ UNCHANGED <<connVars, sent, inputValue, recvVars, chatVars,
                               consoleVars, ledgerVars, panelVars, previewVars>>)
       /\ (sent' # sent) => (nSends' > nSends /\ ReadyState = "open")]_vars

C15_Witness ==
    /\ lastOp = "stopGeneration"
    /\ ReadyState \in {"closing", "closed"}
    /\ isStreaming
    /\ sent = <<>>
    /\ nSends = 1

MirrorOps ==
    {"mobile:syncToolsList", "mobile:syncCanvasStatus", "mobile:loadCanvasUrl",
     "mobile:refreshCanvas", "mobile:selectAgent", "mobile:updateAgentSelector",
     "mobile:openFullSettings"}

\* C16: no operation of the mobile UI writes state or elements of the desktop
\* surface, except that selecting an agent goes through setActiveAgent.
C16_MirrorNeverWritesPrimary ==
    [][(nMirrorOps' > nMirrorOps /\ lastOp' \in MirrorOps)
       => (/\ UNCHANGED <<connVars, sent, inputValue, recvVars, chatVars,
                          consoleVars, ledgerVars, browserVars, sessionVars,
                          canvasVars, settingsHidden, previewVars>>
           /\ (<<activeAgent, autoRouting>>' # <<activeAgent, autoRouting>>
                => lastOp' = "mobile:selectAgent"))]_vars

\* C17: after setPreviewContent(mode, data) with a mode other than empty (and
\* a valid url for web), the taskbar holds app_<mode> with minimized = false,
\* also when that app was registered and minimized before the call.
C17_SetContentLeavesAppUnminimized ==
    (/\ lastOp = "setPreviewContent"
     /\ previewState.mode \in Kinds
     /\ previewState.mode = "web" => ~InvalidUrl(previewState.content))
    => \E i \in 1..Len(openApps) :
            /\ openApps[i].id = AppId(previewState.mode)
            /\ ~openApps[i].minimized

\* C18: the taskbar never holds two apps with the same id, nor two of the
\* same kind.
C18_OneAppPerKind ==
    \A i, j \in 1..Len(openApps) :
        (openApps[i].id = openApps[j].id \/ openApps[i].type = openApps[j].type)
            => i = j

C18_Witness ==
    /\ lastOp = "setPreviewContent" /\ prevOp = "setPreviewContent"
    /\ viewBeforeLast.mode = "web" /\ previewState.mode = "web"
    /\ viewBeforeLast.shown = Str(<<"http://x">>)
    /\ Shown = Str(<<"http://y">>)
    /\ Len(openApps) = 3

\* C19: dispatching an envelope whose kind has no case changes no client
\* state (stream buffer, isStreaming, ledger, browser history, preview state,
\* session id or anything else) and raises no error.
C19_UnknownKindChangesNothing ==
    [][(/\ nDispatched' > nDispatched
        /\ lastData'.valid
        /\ lastData'.type \notin HandledKinds)
       => (/\ lastExc' = "none"
           /\ UNCHANGED <<connVars, sent, inputValue, chatVars, consoleVars,
                          ledgerVars, panelVars, previewVars>>)]_vars

C19_Witness ==
    /\ lastOp = "unknown"
    /\ lastData.type \notin HandledKinds
    /\ previewState.mode = "web"
    /\ Len(browserHistory) = 1
    /\ toolHistory # <<>>
    /\ currentSessionId = Str(<<"s1">>)

\* C20: the ledger never holds more than MAX_HISTORY entries, and a
\* tool_start that finds it full evicts the entry that was started earliest
\* and keeps every other one behind the new entry.
C20_CapAndFifoEviction ==
    [][/\ Len(toolHistory') <= MAX_HISTORY
       /\ (Dispatched("tool_start") /\ Len(toolHistory) = MAX_HISTORY)
            => (/\ Len(toolHistory') = MAX_HISTORY
                /\ toolHistory'[1].tool = lastData'.tool
                /\ toolHistory'[1].status = "running"
                /\ SubSeq(toolHistory', 2, MAX_HISTORY)
                        = SubSeq(toolHistory, 1, MAX_HISTORY - 1)
                /\ \A i \in 1..MAX_HISTORY :
                        toolHistory[MAX_HISTORY].startTime
                            <= toolHistory[i].startTime)]_vars

C20_Witness ==
    /\ lastOp = "tool_start"
    /\ Len(toolHistory) = MAX_HISTORY
    /\ terminalOutput = MAX_HISTORY + 2
    /\ toolHistory[MAX_HISTORY].startTime > 0
    /\ toolHistory[1].startTime > toolHistory[MAX_HISTORY].startTime

\* the last envelope transmitted asks to stop the generation
StopRequested == sent # <<>> /\ sent[Len(sent)].type = "stop"

\* C21: once stop was requested, a token event with a string payload that
\* finds the response live is appended to it and rendered; the stopped event
\* finalizes the buffer; a token event after stopped and before the next
\* stream_start changes nothing.
C21_TokensRenderedUntilStopped ==
    [][/\ (/\ Dispatched("token") /\ IsString(lastData'.content)
            /\ StopRequested /\ currentAIMessage # 0)
            => (/\ currentAIMessage' = currentAIMessage
                /\ currentAIContent' = currentAIContent \o lastData'.content.v
                /\ InDocument(messages', currentAIMessage)
                /\ messages'[IndexOf(messages', currentAIMessage)].src
                        = currentAIContent')
       /\ Dispatched("stopped")
            => (/\ currentAIMessage' = 0
                /\ currentAIContent' = <<>>
                /\ ~isStreaming'
                /\ \A i \in 1..Len(messages') :
                        messages'[i].id = currentAIMessage =>
                            (/\ ~messages'[i].pending
                             /\ messages'[i].src = currentAIContent))
       /\ (nDispatched' > nDispatched /\ lastData'.type = "token" /\ afterStopped)
            => (/\ lastExc' = "none"
                /\ UNCHANGED <<chatVars, consoleVars, ledgerVars, panelVars,
                               previewVars, chatStatus, sent>>)]_vars

C21_Witness ==
    /\ lastOp = "token" /\ prevOp = "stopped"
    /\ afterStopped
    /\ StopRequested
    /\ nDispatched = 5
    /\ currentAIMessage = 0
    /\ InDocument(messages, streamElem)
    /\ messages[IndexOf(messages, streamElem)].src = <<"a", "a">>
    /\ messages[IndexOf(messages, streamElem)].hl

\* C22: once more than 10 s have passed since a page was put into the canvas
\* iframe (in any mode), the canvas status is connected, whatever the frame
\* reported in the meantime; in particular it is no longer loading.
C22_LoadConnectedWithinTimeout ==
    (canvasLoadAt # NoTime /\ now > canvasLoadAt + LoadTimeout)
        => canvasStatus = "connected"

SwitchingKinds == {"server_started", "html_created", "gui_started"}

\* the canvas mode the handler of a switching event asks for
RequestedMode(type) ==
    CASE type = "server_started" -> "web"
      [] type = "html_created" -> "html"
      [] OTHER -> "vnc"

\* C23: when the last two events received were preview-switching events and
\* every delayed callback and every suspended handler they started has run,
\* the canvas mode is the one the last of them asked for.
C23_LastSwitchEventWins ==
    (/\ lastData.type \in SwitchingKinds /\ prevData.type \in SwitchingKinds
     /\ \A t \in canvasTimers : t.kind = "load"
     /\ canvasTasks = {})
    => canvasMode = RequestedMode(lastData.type)

\* C24: once the socket that replaced a lost one is open, with no reconnect
\* pending and no event received on it yet, state.isStreaming is false, also
\* when the connection was lost in the middle of a response.
C24_ReconnectClearsStreaming ==
    (/\ Epoch >= 2 /\ sockets[Epoch].state = "open"
     /\ timers = {}
     /\ lastRecvEpoch < Epoch)
    => ~isStreaming

\* C27: a sendMessage call transmits a message only when no earlier message
\* is still waiting for the end of its response (stream_end, stopped or error).
C27_OneRequestInFlight ==
    [][(nSends' > nSends /\ lastOp' = "sendMessage" /\ Len(sent') > Len(sent))
        => ~inFlight]_vars

\* the role and the text of every message on display
Displayed ==
    [i \in 1..Len(messages) |->
        [role |-> IF messages[i].cls = "user" THEN "human" ELSE messages[i].cls,
         content |-> messages[i].src]]

\* C25: when a session is selected, no loadSession fetch is pending and none
\* has failed, the messages on display are the human and ai messages stored
\* for the session whose id is state.currentSessionId.
C25_DisplayIsCurrentSession ==
    (/\ IsString(currentSessionId) /\ sessionTasks = {} /\ ~loadFailed
     /\ lastOp = "loadSession:done")
    => Displayed = SelectSeq(Stored(currentSessionId.v[1]),
                             LAMBDA m : m.role \in {"human", "ai"})

\* C26: after restoreApp(appId) found the app, the preview mode is the kind of
\* that app, so that close and minimize act on the app that was restored.
C26_RestoreSetsMode ==
    (lastOp = "restore" /\ HasApp(openApps, lastApp))
        => AppId(previewState.mode) = lastApp

\* C30: exactly one of the four viewport regions is visible, and while the
\* preview mode is empty that region is the placeholder.
C30_OneRegionVisible ==
    /\ Cardinality(Visible) = 1
    /\ previewState.mode = "empty" => Visible = {"placeholder"}

\* the entries of the given tool that are still loading
LoadingOf(tool) ==
    {i \in 1..Len(browserHistory) :
        browserHistory[i].tool = tool /\ browserHistory[i].status = "loading"}

\* C28: a browser_result for a tool completes the entry that the tool's
\* browser_start opened: when one entry of that tool is loading, it is loaded
\* with the result's content afterwards, whatever other tools' browser_start
\* and browser_result frames arrived in between.
C28_ResultCompletesItsStart ==
    [][(Dispatched("browser_result") /\ Cardinality(LoadingOf(lastData'.tool)) = 1)
        => \A i \in LoadingOf(lastData'.tool) :
                /\ browserHistory'[i].status = "loaded"
                /\ browserHistory'[i].content = lastData'.content]_vars

\* C29: the viewport shows the remote-desktop bridge page only while the
\* canvas mode is vnc: a connectVnc that resumes after the mode was switched
\* away does not load the bridge URL.
C29_VncPageOnlyInVncMode ==
    (~canvasIframeHidden /\ canvasIframeSrc = CanvasVncUrl) => canvasMode = "vnc"

====
